---- MODULE Spec2Model ----
(***************************************************************************)
(* Model of the security-reviewer scanner:                                 *)
(*  - utils/deduplicator.py: the Finding record, its fingerprint,          *)
(*    merge_with, and the FindingDeduplicator operations (Spec);           *)
(*  - utils/severity_mapper.py: normalize_severity (SpecNormalize);        *)
(*  - parsers/*.py: the parse of the four tool reports (SpecParse);        *)
(*  - utils/language_detector.py and run_security_scan.py: the detection   *)
(*    of languages, run_tool and SecurityScanner.scan (SpecScan).          *)
(*                                                                         *)
(* Python strings are sequences of one-character strings, so that          *)
(* str.lstrip, the f-string concatenation, len(), sorted() and ", ".join   *)
(* are computed as Python computes them.  JSON values are tagged records.  *)
(***************************************************************************)
EXTENDS Integers, Sequences, FiniteSets, Bags, TLC

\* ------------------------------------------------------------------ bounds
\* Longest sequence of add_finding calls explored on one deduplicator.
MaxAdds == 3

\* Most calls of the parsers explored before one deduplicator.
MaxParses == 2

\* ----------------------------------------------------------- Python strings
\* The ASCII letters and digits, in code point order.
LowerLetters == <<"a", "b", "c", "d", "e", "f", "g", "h", "i", "j", "k", "l", "m", "n", "o", "p", "q", "r", "s", "t", "u", "v", "w", "x", "y", "z">>

UpperLetters == <<"A", "B", "C", "D", "E", "F", "G", "H", "I", "J", "K", "L", "M", "N", "O", "P", "Q", "R", "S", "T", "U", "V", "W", "X", "Y", "Z">>

Digit == <<"0", "1", "2", "3", "4", "5", "6", "7", "8", "9">>

\* The position of an element in a sequence without repetition.
index_of(seq, c) == CHOOSE i \in 1..Len(seq) : seq[i] = c

\* Code points of the characters the model's strings are built from (ord()).
Ord ==
  [c \in {" ", ",", "-", ".", "/", ":", "@", "_"}
           \cup {Digit[i] : i \in 1..10}
           \cup {UpperLetters[i] : i \in 1..26} \cup {LowerLetters[i] : i \in 1..26} |->
     CASE c = " " -> 32 [] c = "," -> 44 [] c = "-" -> 45 [] c = "." -> 46 [] c = "/" -> 47
       [] c = ":" -> 58 [] c = "@" -> 64 [] c = "_" -> 95
       [] c \in {Digit[i] : i \in 1..10} -> 47 + index_of(Digit, c)
       [] c \in {UpperLetters[i] : i \in 1..26} -> 64 + index_of(UpperLetters, c)
       [] c \in {LowerLetters[i] : i \in 1..26} -> 96 + index_of(LowerLetters, c)]

\* s < t for Python str: lexicographic by code point, a proper prefix first.
StrLess(s, t) ==
  \E i \in 1..(Len(t)) :
    /\ \A j \in 1..(i - 1) : j <= Len(s) /\ s[j] = t[j]
    /\ \/ i = Len(s) + 1
       \/ i <= Len(s) /\ Ord[s[i]] < Ord[t[i]]

\* sorted(S) for a set S of strings.
RECURSIVE sorted(_)
sorted(S) ==
  IF S = {} THEN <<>>
  ELSE LET m == CHOOSE x \in S : \A y \in S \ {x} : StrLess(x, y)
       IN  <<m>> \o sorted(S \ {m})

\* sep.join(parts) for a sequence of strings.
RECURSIVE join(_, _)
join(sep, parts) ==
  IF parts = <<>> THEN <<>>
  ELSE IF Len(parts) = 1 THEN parts[1]
  ELSE parts[1] \o sep \o join(sep, Tail(parts))

\* s.lstrip(chars): drop leading characters while they belong to chars.
RECURSIVE lstrip(_, _)
lstrip(s, chars) ==
  IF s # <<>> /\ Head(s) \in chars THEN lstrip(Tail(s), chars) ELSE s

\* str(n) for a non-negative int: its decimal digits.
RECURSIVE str(_)
str(n) ==
  IF n < 10 THEN <<Digit[n + 1]>>
  ELSE str(n \div 10) \o <<Digit[(n % 10) + 1]>>

\* hashlib.md5(data).hexdigest(): the digest is taken to be collision-free on
\* the strings of the model, so it is an injective tag of the hashed string.
md5_hexdigest(data) == [md5_of |-> data]

\* ------------------------------------------------------------------ Finding
\* severity_order of merge_with, and severity_order.get(s, 4).
severity_order == [s \in {"CR", "HI", "ME", "LO"} |->
                     CASE s = "CR" -> 0 [] s = "HI" -> 1 [] s = "ME" -> 2 [] s = "LO" -> 3]

severity_rank(s) == IF s \in DOMAIN severity_order THEN severity_order[s] ELSE 4

\* None where a str is expected (a field made of a JSON null): no sequence of
\* characters.
None == <<"None">>

\* dataclass Finding.
Finding(tool, title, severity, category, file_path, line_start, line_end, code_snippet, description, cwe, metadata) ==
  [tool |-> tool, title |-> title, severity |-> severity, category |-> category,
   file_path |-> file_path, line_start |-> line_start, line_end |-> line_end,
   code_snippet |-> code_snippet, description |-> description, cwe |-> cwe,
   metadata |-> metadata]

\* Mutant of get_fingerprint: the originating tool is hashed too.
get_fingerprint_with_tool(self) ==
  LET normalized_path == lstrip(self.file_path, {".", "/"})
      fingerprint_data == normalized_path \o <<":">> \o str(self.line_start) \o <<":">>
                            \o self.category \o <<":">> \o self.title \o <<":">> \o self.tool
  IN  md5_hexdigest(fingerprint_data)

\* Finding.get_fingerprint.
get_fingerprint(self) ==
  LET normalized_path == lstrip(self.file_path, {".", "/"})
      fingerprint_data == normalized_path \o <<":">> \o str(self.line_start) \o <<":">>
                            \o self.category \o <<":">> \o self.title
  IN  md5_hexdigest(fingerprint_data)

\* {**a, **b}: union of two dicts, b's value winning on a shared key.
dict_union(a, b) ==
  [k \in (DOMAIN a) \cup (DOMAIN b) |-> IF k \in DOMAIN b THEN b[k] ELSE a[k]]

\* d with d[key] = value (key added when absent).
dict_set(d, key, value) ==
  [k \in (DOMAIN d) \cup {key} |-> IF k = key THEN value ELSE d[k]]

\* Mutant of merged_severity: the comparison is turned round.
merged_severity_flipped(self, other) ==
  IF severity_rank(other.severity) > severity_rank(self.severity)
    THEN other.severity ELSE self.severity

\* merge_with, "Use the higher severity".
merged_severity(self, other) ==
  IF severity_rank(other.severity) < severity_rank(self.severity)
    THEN other.severity ELSE self.severity

\* Mutant of merged_tool: the two names are joined as a list, not as a set.
merged_tool_of_list(self, other) ==
  join(<<",", " ">>, <<self.tool, other.tool>>)

\* merge_with, "Combine tool names".
merged_tool(self, other) ==
  LET tools == {self.tool, other.tool}
  IN  join(<<",", " ">>, sorted(tools))

\* The 'tools' list of the merged metadata.  list(set(...)) leaves the order of
\* the list unspecified, so a list is modelled up to order, as the bag of its
\* elements: [x, y] is a bag of two, list(set(xs)) holds each element once.
merged_tools_list(self, other, merged) ==
  IF "tools" \in DOMAIN merged
    THEN SetToBag(BagToSet(merged["tools"]) \cup {self.tool, other.tool})
    ELSE SetToBag({self.tool}) (+) SetToBag({other.tool})

\* merge_with, "Merge metadata".
merged_metadata(self, other) ==
  LET merged == dict_union(self.metadata, other.metadata)
  IN  dict_set(merged, "tools", merged_tools_list(self, other, merged))

\* merge_with, "Keep the longer description" (and the same rule for code_snippet).
longer(mine, theirs) == IF Len(mine) > Len(theirs) THEN mine ELSE theirs

\* min() and max() of two ints.
min(a, b) == IF b < a THEN b ELSE a

max(a, b) == IF b > a THEN b ELSE a

\* Mutant of merge_with: the merged Finding is titled after both Findings.
merge_with_both_titles(self, other) ==
  Finding(merged_tool(self, other),
          self.title \o <<" ", "/", " ">> \o other.title,
          merged_severity(self, other),
          self.category,
          self.file_path,
          min(self.line_start, other.line_start),
          max(self.line_end, other.line_end),
          longer(self.code_snippet, other.code_snippet),
          longer(self.description, other.description),
          IF self.cwe # <<>> THEN self.cwe ELSE other.cwe,
          merged_metadata(self, other))

\* Finding.merge_with.
merge_with(self, other) ==
  Finding(merged_tool(self, other),
          self.title,
          merged_severity(self, other),
          self.category,
          self.file_path,
          min(self.line_start, other.line_start),
          max(self.line_end, other.line_end),
          longer(self.code_snippet, other.code_snippet),
          longer(self.description, other.description),
          IF self.cwe # <<>> THEN self.cwe ELSE other.cwe,
          merged_metadata(self, other))

\* ------------------------------------------------------ FindingDeduplicator
\* A Python dict: its items in insertion order, as <<key, value>> pairs with
\* pairwise distinct keys.
dict_keys(d) == {d[i][1] : i \in 1..Len(d)}

dict_get(d, key) == d[CHOOSE i \in 1..Len(d) : d[i][1] = key][2]

\* Mutant of dict_put: the dict is replaced by one that holds the new item only.
dict_put_alone(d, key, value) == <<<<key, value>>>>

\* d[key] = value: an existing key keeps its position, a new key goes last.
dict_put(d, key, value) ==
  IF key \in dict_keys(d)
    THEN [i \in 1..Len(d) |-> IF d[i][1] = key THEN <<key, value>> ELSE d[i]]
    ELSE Append(d, <<key, value>>)

\* list(d.values()).
dict_values(d) == [i \in 1..Len(d) |-> d[i][2]]

\* Mutant of add_finding_map: the membership test is missing, every Finding is
\* stored as a new entry.
add_finding_map_no_lookup(map, finding) ==
  Append(map, <<get_fingerprint(finding), finding>>)

\* Mutant of add_finding_ret: the two return values are swapped.
add_finding_ret_swapped(map, finding) == get_fingerprint(finding) \in dict_keys(map)

\* FindingDeduplicator.add_finding: the map after the call, and what it returns.
add_finding_map(map, finding) ==
  LET fingerprint == get_fingerprint(finding)
  IN  IF fingerprint \in dict_keys(map)
        THEN dict_put(map, fingerprint, merge_with(dict_get(map, fingerprint), finding))
        ELSE dict_put(map, fingerprint, finding)

add_finding_ret(map, finding) == get_fingerprint(finding) \notin dict_keys(map)

\* FindingDeduplicator.add_findings: add_finding for each, in list order.
RECURSIVE add_findings(_, _)
add_findings(map, findings) ==
  IF findings = <<>> THEN map
  ELSE add_findings(add_finding_map(map, Head(findings)), Tail(findings))

\* Finding.get_fingerprint raises AttributeError: self.file_path.lstrip on None.
get_fingerprint_raises(self) == self.file_path = None

\* Mutant of add_findings_outcome: the Findings are put aside, nothing is added.
add_findings_put_aside(map, findings) == [map |-> map, added |-> <<>>, raised |-> ""]

\* FindingDeduplicator.add_findings when get_fingerprint can raise: the Findings
\* before the first one that raises are added, the exception leaves the loop.
add_findings_outcome(map, findings) ==
  LET raising == {i \in 1..Len(findings) : get_fingerprint_raises(findings[i])}
      first == IF raising = {} THEN Len(findings) + 1
               ELSE CHOOSE i \in raising : \A j \in raising : i <= j
  IN  [map |-> add_findings(map, SubSeq(findings, 1, first - 1)),
       added |-> SubSeq(findings, 1, first - 1),
       raised |-> IF raising = {} THEN "" ELSE "AttributeError"]

\* FindingDeduplicator.get_unique_findings.
get_unique_findings(map) == dict_values(map)

\* Mutant of count_keys: the count is set to 1 instead of incremented.
RECURSIVE count_keys_no_increment(_, _)
count_keys_no_increment(keys, counts) ==
  IF keys = <<>> THEN counts
  ELSE count_keys_no_increment(Tail(keys), dict_set(counts, Head(keys), 1))

\* counts[key] = counts.get(key, 0) + 1 over a list of keys.
RECURSIVE count_keys(_, _)
count_keys(keys, counts) ==
  IF keys = <<>> THEN counts
  ELSE LET k == Head(keys)
           old == IF k \in DOMAIN counts THEN counts[k] ELSE 0
       IN  count_keys(Tail(keys), dict_set(counts, k, old + 1))

\* FindingDeduplicator.get_statistics.
get_statistics(map) ==
  LET findings == get_unique_findings(map)
      severity_counts == count_keys([i \in 1..Len(findings) |-> findings[i].severity],
                                    [s \in {"CR", "HI", "ME", "LO"} |-> 0])
      category_counts == count_keys([i \in 1..Len(findings) |-> findings[i].category],
                                    [k \in {} |-> 0])
  IN  [total |-> Len(findings), by_severity |-> severity_counts,
       by_category |-> category_counts]

\* ------------------------------------------------------------------- inputs
\* The Findings handed to add_finding: an identity (the four fingerprinted
\* fields) combined with a contribution (the other seven fields).  line_end is
\* given as an offset from line_start.  Severities are normalized ones.
\*
\* Three spellings of one path, on the same line, category and title.
SamePlace ==
  { [file_path |-> <<"a", ".", "p", "y">>,                line_start |-> 1, category |-> <<"s">>, title |-> <<"t">>],
    [file_path |-> <<".", "/", "a", ".", "p", "y">>,      line_start |-> 1, category |-> <<"s">>, title |-> <<"t">>],
    [file_path |-> <<".", ".", "/", "a", ".", "p", "y">>, line_start |-> 1, category |-> <<"s">>, title |-> <<"t">>] }

\* The same path with another line, another category, another title.
OtherPlaces ==
  { [file_path |-> <<"a", ".", "p", "y">>, line_start |-> 2, category |-> <<"s">>, title |-> <<"t">>],
    [file_path |-> <<"a", ".", "p", "y">>, line_start |-> 1, category |-> <<"d">>, title |-> <<"t">>],
    [file_path |-> <<"a", ".", "p", "y">>, line_start |-> 1, category |-> <<"s">>, title |-> <<"u">>] }

EmptyDict == [k \in {} |-> <<>>]

FirstContribution ==
  [tool |-> <<"A">>, severity |-> "HI", span |-> 0, code_snippet |-> <<>>,
   description |-> <<"x">>, cwe |-> <<>>, metadata |-> EmptyDict]

Contributions ==
  { FirstContribution,
    [tool |-> <<"B">>, severity |-> "CR", span |-> 1, code_snippet |-> <<"c">>,
     description |-> <<"y">>, cwe |-> <<"w">>, metadata |-> [k \in {"check_id"} |-> <<"v">>]],
    [tool |-> <<"A">>, severity |-> "LO", span |-> 0, code_snippet |-> <<"c">>,
     description |-> <<"x", "x">>, cwe |-> <<"z">>, metadata |-> [k \in {"check_id"} |-> <<"u">>]],
    [tool |-> <<"B">>, severity |-> "ME", span |-> 0, code_snippet |-> <<>>,
     description |-> <<>>, cwe |-> <<>>, metadata |-> [k \in {"test_id"} |-> <<"k">>]] }

\* The Finding of contribution c at identity i.
FindingAt(i, c) ==
  Finding(c.tool, i.title, c.severity, i.category, i.file_path, i.line_start,
          i.line_start + c.span, c.code_snippet, c.description, c.cwe, c.metadata)

\* Every contribution at the three spellings, one contribution at the others.
Findings ==
  {FindingAt(i, c) : i \in SamePlace, c \in Contributions}
    \cup {FindingAt(i, FirstContribution) : i \in OtherPlaces}

\* ------------------------------------------------------- severity_mapper.py
\* str.upper() and str.lower(), on the ASCII letters.
upper_char(c) ==
  IF \E i \in 1..26 : LowerLetters[i] = c
    THEN UpperLetters[CHOOSE i \in 1..26 : LowerLetters[i] = c] ELSE c

lower_char(c) ==
  IF \E i \in 1..26 : UpperLetters[i] = c
    THEN LowerLetters[CHOOSE i \in 1..26 : UpperLetters[i] = c] ELSE c

upper(s) == [i \in 1..Len(s) |-> upper_char(s[i])]

lower(s) == [i \in 1..Len(s) |-> lower_char(s[i])]

\* SEVERITY_MAPPINGS.
SEVERITY_MAPPINGS ==
  <<"s", "e", "m", "g", "r", "e", "p">> :>
      (<<"E", "R", "R", "O", "R">> :> "CR"
       @@ <<"W", "A", "R", "N", "I", "N", "G">> :> "HI"
       @@ <<"I", "N", "F", "O">> :> "ME"
       @@ <<"N", "O", "T", "E">> :> "LO")
    @@ <<"b", "a", "n", "d", "i", "t">> :>
      (<<"H", "I", "G", "H">> :> "CR"
       @@ <<"M", "E", "D", "I", "U", "M">> :> "HI"
       @@ <<"L", "O", "W">> :> "ME")
    @@ <<"n", "p", "m", "_", "a", "u", "d", "i", "t">> :>
      (<<"c", "r", "i", "t", "i", "c", "a", "l">> :> "CR"
       @@ <<"h", "i", "g", "h">> :> "HI"
       @@ <<"m", "o", "d", "e", "r", "a", "t", "e">> :> "ME"
       @@ <<"l", "o", "w">> :> "LO")
    @@ <<"t", "r", "i", "v", "y">> :>
      (<<"C", "R", "I", "T", "I", "C", "A", "L">> :> "CR"
       @@ <<"H", "I", "G", "H">> :> "HI"
       @@ <<"M", "E", "D", "I", "U", "M">> :> "ME"
       @@ <<"L", "O", "W">> :> "LO")

\* A value read from JSON (or passed by a caller): a str, or something that is
\* not a str (null, a number, a list, an object).
JStr(s) == [type |-> "str", str |-> s]

JNull == [type |-> "null"]

\* What a call does: return a value, or raise an exception of a class.
Return(v) == [raised |-> "", value |-> v]

Raise(class) == [raised |-> class, value |-> ""]

\* Mutant of normalize_severity: only the exact severity string is looked up.
normalize_severity_exact(tool, severity) ==
  LET tool_l == lower(tool)
  IN  IF tool_l \notin DOMAIN SEVERITY_MAPPINGS THEN Raise("ValueError")
      ELSE IF severity.type # "str" THEN Raise("AttributeError")
      ELSE LET mapping == SEVERITY_MAPPINGS[tool_l]
           IN  IF severity.str \notin DOMAIN mapping THEN Raise("ValueError")
               ELSE Return(mapping[severity.str])

\* normalize_severity.  The tool name is a str; the severity is whatever the
\* caller read from the tool's output, and .upper() on a non-str raises
\* AttributeError.  The keys of a table have pairwise different upper-case
\* forms, so the loop over mapping.items() returns the one match if there is one.
normalize_severity(tool, severity) ==
  LET tool_l == lower(tool)
  IN  IF tool_l \notin DOMAIN SEVERITY_MAPPINGS THEN Raise("ValueError")
      ELSE IF severity.type # "str" THEN Raise("AttributeError")
      ELSE LET mapping == SEVERITY_MAPPINGS[tool_l]
               severity_upper == upper(severity.str)
               severity_lower == lower(severity.str)
           IN  IF severity_upper \notin DOMAIN mapping /\ severity_lower \notin DOMAIN mapping
                 THEN IF \E key \in DOMAIN mapping : upper(key) = severity_upper
                        THEN Return(mapping[CHOOSE key \in DOMAIN mapping : upper(key) = severity_upper])
                        ELSE Raise("ValueError")
                 ELSE IF severity_upper \in DOMAIN mapping THEN Return(mapping[severity_upper])
                 ELSE IF severity_lower \in DOMAIN mapping THEN Return(mapping[severity_lower])
                 ELSE Return("LO")

\* Tool names and severities normalize_severity is called with.
ToolNames ==
  { <<"s", "e", "m", "g", "r", "e", "p">>,
    <<"S", "e", "m", "g", "r", "e", "p">>,
    <<"B", "A", "N", "D", "I", "T">>,
    <<"b", "a", "n", "d", "i", "t">>,
    <<"n", "p", "m", "_", "a", "u", "d", "i", "t">>,
    <<"N", "p", "m", "_", "A", "u", "d", "i", "t">>,
    <<"t", "r", "i", "v", "y">>,
    <<"e", "s", "l", "i", "n", "t">>,
    <<>> }

SeverityStrings ==
  { <<"E", "R", "R", "O", "R">>,
    <<"e", "r", "r", "o", "r">>,
    <<"E", "r", "r", "o", "r">>,
    <<"W", "A", "R", "N", "I", "N", "G">>,
    <<"i", "n", "f", "o">>,
    <<"N", "O", "T", "E">>,
    <<"H", "I", "G", "H">>,
    <<"H", "i", "g", "h">>,
    <<"m", "e", "d", "i", "u", "m">>,
    <<"L", "O", "W">>,
    <<"c", "r", "i", "t", "i", "c", "a", "l">>,
    <<"C", "R", "I", "T", "I", "C", "A", "L">>,
    <<"m", "o", "d", "e", "r", "a", "t", "e">>,
    <<"M", "o", "d", "e", "r", "a", "t", "e">>,
    <<"l", "o", "w">>,
    <<"U", "N", "K", "N", "O", "W", "N">>,
    <<"b", "o", "g", "u", "s">>,
    <<>> }

SeverityValues == {JStr(s) : s \in SeverityStrings} \cup {JNull}

\* ------------------------------------------------------------------ parsers
\* JSON values besides str and null: a number, a list, an object.
JInt(n) == [type |-> "int", int |-> n]

JList(items) == [type |-> "list", items |-> items]

JDict(items) == [type |-> "dict", items |-> items]

\* The Python value of a JSON string or null.
str_or_none(v) == IF v.type = "null" THEN None ELSE v.str

\* d.get(key, default) on a dict d.
get(d, key, default) == IF key \in DOMAIN d.items THEN d.items[key] ELSE default

\* A tool's output file as open() and json.load() find it: missing (IOError),
\* not UTF-8 text (UnicodeDecodeError, a ValueError that is no JSONDecodeError),
\* text that is not JSON (JSONDecodeError), or a JSON document.
MissingFile == [state |-> "missing"]

UndecodableFile == [state |-> "undecodable"]

NotJsonFile == [state |-> "not_json"]

JsonFile(data) == [state |-> "json", data |-> data]

\* Iterating over what stands where a list of result objects is expected, in
\* "for result in ...": a list iterates; null and a number raise TypeError.
iter_raises(v) == v.type \in {"null", "int"}

\* s.replace(".", " ").
replace_dots(s) == [i \in 1..Len(s) |-> IF s[i] = "." THEN " " ELSE s[i]]

\* s.title(): a letter after a non-letter is upper-cased, any other lower-cased.
is_letter(c) == \E i \in 1..26 : LowerLetters[i] = c \/ UpperLetters[i] = c

title(s) ==
  [i \in 1..Len(s) |->
     IF i = 1 \/ ~is_letter(s[i - 1]) THEN upper_char(s[i]) ELSE lower_char(s[i])]

\* Variants of the fallback, to show what the claims about it depend on: one that
\* keeps a label of the tool where the table has none, one without the except.
normalized_or_unknown(tool, severity) ==
  LET r == normalize_severity(tool, severity)
  IN  IF r.raised = "ValueError" THEN Return("UNKNOWN") ELSE r

normalized_or_raise(tool, severity) == normalize_severity(tool, severity)

\* "try: normalize_severity(tool, severity) / except ValueError: 'ME'" of every
\* parser: the ordinal, or the exception that is not a ValueError.
normalized_or_default(tool, severity) ==
  LET r == normalize_severity(tool, severity)
  IN  IF r.raised = "ValueError" THEN Return("ME") ELSE r

\* The outcome of a parse loop over per-result outcomes: the first exception
\* raised, or the list of the Findings produced.
RECURSIVE collect(_)
collect(outcomes) ==
  IF outcomes = <<>> THEN Return(<<>>)
  ELSE IF Head(outcomes).raised # "" THEN Raise(Head(outcomes).raised)
  ELSE LET rest == collect(Tail(outcomes))
       IN  IF rest.raised # "" THEN rest
           ELSE Return(Head(outcomes).value \o rest.value)

\* The part of every parse that reads the file: what "try: json.load /
\* except (JSONDecodeError, IOError): return []" leaves to the rest of parse.
\* handled = the parse is over with this outcome.
load_json(output_file) ==
  IF output_file.state \in {"missing", "not_json"} THEN [handled |-> TRUE, outcome |-> Return(<<>>)]
  ELSE IF output_file.state = "undecodable" THEN [handled |-> TRUE, outcome |-> Raise("UnicodeDecodeError")]
  ELSE IF output_file.data.type # "dict" THEN [handled |-> TRUE, outcome |-> Raise("AttributeError")]
  ELSE [handled |-> FALSE, outcome |-> Return(<<>>)]

\* SemgrepParser.parse, the body of the loop, for one result object.
semgrep_result(result) ==
  LET check_id == get(result, "check_id", JStr(<<"u", "n", "k", "n", "o", "w", "n">>)).str
      extra == get(result, "extra", JDict(EmptyDict))
      message == get(extra, "message", JStr(<<>>)).str
      severity == get(extra, "severity", JStr(<<"I", "N", "F", "O">>))
      file_path == str_or_none(get(result, "path", JStr(<<>>)))
      start_line == get(get(result, "start", JDict(EmptyDict)), "line", JInt(0)).int
      end_line == get(get(result, "end", JDict(EmptyDict)), "line", JInt(0)).int
      code_lines == get(extra, "lines", JStr(<<>>)).str
      metadata == get(extra, "metadata", JDict(EmptyDict))
      category == get(metadata, "category", JStr(<<"s", "e", "c", "u", "r", "i", "t", "y">>)).str
      cwe0 == get(metadata, "cwe", JStr(<<>>))
      cwe == IF cwe0.type = "list" /\ cwe0.items # <<>> THEN cwe0.items[1] ELSE cwe0
      normalized == normalized_or_default(<<"s", "e", "m", "g", "r", "e", "p">>, severity)
  IN  IF normalized.raised # "" THEN normalized
      ELSE Return(<<Finding(<<"s", "e", "m", "g", "r", "e", "p">>,
                            title(replace_dots(check_id)),
                            normalized.value,
                            category,
                            file_path,
                            start_line,
                            end_line,
                            code_lines,
                            message,
                            IF cwe.type = "str" THEN cwe.str ELSE <<>>,
                            dict_union([k \in {"check_id", "semgrep_severity"} |->
                                          IF k = "check_id" THEN JStr(check_id) ELSE severity],
                                       metadata.items))>>)

\* SemgrepParser.parse.
semgrep_parse(output_file) ==
  LET loaded == load_json(output_file)
  IN  IF loaded.handled THEN loaded.outcome
      ELSE LET results == get(output_file.data, "results", JList(<<>>))
           IN  IF iter_raises(results) THEN Raise("TypeError")
               ELSE collect([i \in 1..Len(results.items) |-> semgrep_result(results.items[i])])

\* BanditParser.parse, the body of the loop, for one result object.
bandit_result(result) ==
  LET test_id == get(result, "test_id", JStr(<<"u", "n", "k", "n", "o", "w", "n">>)).str
      test_name == get(result, "test_name", JStr(<<>>)).str
      issue_text == get(result, "issue_text", JStr(<<>>)).str
      severity == get(result, "issue_severity", JStr(<<"M", "E", "D", "I", "U", "M">>))
      file_path == str_or_none(get(result, "filename", JStr(<<>>)))
      line_number == get(result, "line_number", JInt(0)).int
      code_snippet == get(result, "code", JStr(<<>>)).str
      cwe == get(result, "issue_cwe", JDict(EmptyDict))
      cwe_id == IF cwe.type = "dict" /\ "id" \in DOMAIN cwe.items
                  THEN (IF cwe.items["id"].type = "int" THEN str(cwe.items["id"].int)
                        ELSE cwe.items["id"].str)
                  ELSE <<>>
      normalized == normalized_or_default(<<"b", "a", "n", "d", "i", "t">>, severity)
  IN  IF normalized.raised # "" THEN normalized
      ELSE Return(<<Finding(<<"b", "a", "n", "d", "i", "t">>,
                            IF test_name # <<>> THEN test_name ELSE test_id,
                            normalized.value,
                            <<"s", "e", "c", "u", "r", "i", "t", "y">>,
                            file_path,
                            line_number,
                            line_number,
                            code_snippet,
                            issue_text,
                            cwe_id,
                            [k \in {"test_id", "bandit_severity", "confidence"} |->
                               IF k = "test_id" THEN JStr(test_id)
                               ELSE IF k = "bandit_severity" THEN severity
                               ELSE get(result, "issue_confidence", JStr(<<>>))])>>)

\* BanditParser.parse.
bandit_parse(output_file) ==
  LET loaded == load_json(output_file)
  IN  IF loaded.handled THEN loaded.outcome
      ELSE LET results == get(output_file.data, "results", JList(<<>>))
           IN  IF iter_raises(results) THEN Raise("TypeError")
               ELSE collect([i \in 1..Len(results.items) |-> bandit_result(results.items[i])])

\* NpmAuditParser.parse, the Finding made of one advisory source of 'via'.
npm_via_finding(package_name, vuln_data, item) ==
  LET severity == get(vuln_data, "severity", JStr(<<"m", "o", "d", "e", "r", "a", "t", "e">>))
      name == get(vuln_data, "name", JStr(package_name)).str
      description == get(item, "title", JStr(<<>>)).str
      normalized == normalized_or_default(<<"n", "p", "m", "_", "a", "u", "d", "i", "t">>, severity)
  IN  IF normalized.raised # "" THEN normalized
      ELSE Return(<<Finding(<<"n", "p", "m", "_", "a", "u", "d", "i", "t">>,
                            IF description # <<>> THEN name \o <<" ", "-", " ">> \o description ELSE name,
                            normalized.value,
                            <<"d", "e", "p", "e", "n", "d", "e", "n", "c", "y", "-", "v", "u", "l", "n", "e", "r", "a", "b", "i", "l", "i", "t", "y">>,
                            <<"p", "a", "c", "k", "a", "g", "e", ".", "j", "s", "o", "n">>,
                            0,
                            0,
                            <<"P", "a", "c", "k", "a", "g", "e", ":", " ">> \o package_name,
                            description,
                            <<>>,
                            [k \in {"package", "npm_severity", "url", "range"} |->
                               IF k = "package" THEN JStr(package_name)
                               ELSE IF k = "npm_severity" THEN severity
                               ELSE IF k = "url" THEN get(item, "url", JStr(<<>>))
                               ELSE get(vuln_data, "range", JStr(<<>>))])>>)

\* NpmAuditParser.parse, "Simple vulnerability without details".
npm_simple_finding(package_name, vuln_data) ==
  LET severity == get(vuln_data, "severity", JStr(<<"m", "o", "d", "e", "r", "a", "t", "e">>))
      name == get(vuln_data, "name", JStr(package_name)).str
      normalized == normalized_or_default(<<"n", "p", "m", "_", "a", "u", "d", "i", "t">>, severity)
  IN  IF normalized.raised # "" THEN normalized
      ELSE Return(<<Finding(<<"n", "p", "m", "_", "a", "u", "d", "i", "t">>,
                            name,
                            normalized.value,
                            <<"d", "e", "p", "e", "n", "d", "e", "n", "c", "y", "-", "v", "u", "l", "n", "e", "r", "a", "b", "i", "l", "i", "t", "y">>,
                            <<"p", "a", "c", "k", "a", "g", "e", ".", "j", "s", "o", "n">>,
                            0,
                            0,
                            <<"P", "a", "c", "k", "a", "g", "e", ":", " ">> \o package_name,
                            <<"V", "u", "l", "n", "e", "r", "a", "b", "i", "l", "i", "t", "y", " ", "i", "n", " ">> \o package_name,
                            <<>>,
                            [k \in {"package", "npm_severity", "range"} |->
                               IF k = "package" THEN JStr(package_name)
                               ELSE IF k = "npm_severity" THEN severity
                               ELSE get(vuln_data, "range", JStr(<<>>))])>>)

\* NpmAuditParser.parse, the body of the loop, for one package: a Finding for
\* each entry of a non-empty 'via' list that is an object, entries that are not
\* objects being passed over; the simple Finding when 'via' is empty or no list.
npm_package(package_name, vuln_data) ==
  LET via == get(vuln_data, "via", JList(<<>>))
  IN  IF via.type = "list" /\ via.items # <<>>
        THEN collect([i \in 1..Len(via.items) |->
                        IF via.items[i].type = "dict"
                          THEN npm_via_finding(package_name, vuln_data, via.items[i])
                          ELSE Return(<<>>)])
        ELSE npm_simple_finding(package_name, vuln_data)

\* The keys of a JSON object as a list.  The document order of the keys is not
\* kept by the model; one order is taken, the same at every call.
RECURSIVE key_list(_)
key_list(keys) ==
  IF keys = {} THEN <<>>
  ELSE LET k == CHOOSE x \in keys : TRUE IN <<k>> \o key_list(keys \ {k})

\* A key of a JSON object as a Python str.  The keys whose characters matter
\* (package names) are one character long in the inputs.
key_str(k) == <<k>>

\* NpmAuditParser.parse.  vulnerabilities.items() raises AttributeError on
\* anything but an object.
npm_audit_parse(output_file) ==
  LET loaded == load_json(output_file)
  IN  IF loaded.handled THEN loaded.outcome
      ELSE LET vulnerabilities == get(output_file.data, "vulnerabilities", JDict(EmptyDict))
           IN  IF vulnerabilities.type # "dict" THEN Raise("AttributeError")
               ELSE LET names == key_list(DOMAIN vulnerabilities.items)
                    IN  collect([i \in 1..Len(names) |->
                                   npm_package(key_str(names[i]), vulnerabilities.items[names[i]])])

\* TrivyParser.parse, the body of the inner loop, for one vulnerability.
trivy_vulnerability(target, vuln) ==
  LET vuln_id == get(vuln, "VulnerabilityID", JStr(<<"u", "n", "k", "n", "o", "w", "n">>)).str
      pkg_name == get(vuln, "PkgName", JStr(<<>>)).str
      installed_version == get(vuln, "InstalledVersion", JStr(<<>>)).str
      fixed_version == get(vuln, "FixedVersion", JStr(<<>>)).str
      severity == get(vuln, "Severity", JStr(<<"M", "E", "D", "I", "U", "M">>))
      vuln_title == get(vuln, "Title", JStr(<<>>)).str
      description == get(vuln, "Description", JStr(<<>>)).str
      cwe_ids == get(vuln, "CweIDs", JList(<<>>))
      cwe == IF cwe_ids.type = "list" /\ cwe_ids.items # <<>> THEN cwe_ids.items[1].str ELSE <<>>
      normalized == normalized_or_default(<<"t", "r", "i", "v", "y">>, severity)
  IN  IF normalized.raised # "" THEN normalized
      ELSE Return(<<Finding(<<"t", "r", "i", "v", "y">>,
                            IF vuln_title # <<>> THEN vuln_id \o <<":", " ">> \o vuln_title ELSE vuln_id,
                            normalized.value,
                            <<"d", "e", "p", "e", "n", "d", "e", "n", "c", "y", "-", "v", "u", "l", "n", "e", "r", "a", "b", "i", "l", "i", "t", "y">>,
                            target,
                            0,
                            0,
                            <<"P", "a", "c", "k", "a", "g", "e", ":", " ">> \o pkg_name \o <<"@">> \o installed_version,
                            IF description # <<>> THEN description ELSE vuln_title,
                            cwe,
                            [k \in {"vulnerability_id", "package", "installed_version",
                                    "fixed_version", "trivy_severity", "references"} |->
                               IF k = "vulnerability_id" THEN JStr(vuln_id)
                               ELSE IF k = "package" THEN JStr(pkg_name)
                               ELSE IF k = "installed_version" THEN JStr(installed_version)
                               ELSE IF k = "fixed_version" THEN JStr(fixed_version)
                               ELSE IF k = "trivy_severity" THEN severity
                               ELSE get(vuln, "References", JList(<<>>))])>>)

\* TrivyParser.parse, the body of the outer loop, for one scanned target.
trivy_result(result) ==
  LET target == str_or_none(get(result, "Target", JStr(<<>>)))
      vulnerabilities == get(result, "Vulnerabilities", JList(<<>>))
  IN  IF iter_raises(vulnerabilities) THEN Raise("TypeError")
      ELSE collect([i \in 1..Len(vulnerabilities.items) |->
                      trivy_vulnerability(target, vulnerabilities.items[i])])

\* TrivyParser.parse.
trivy_parse(output_file) ==
  LET loaded == load_json(output_file)
  IN  IF loaded.handled THEN loaded.outcome
      ELSE LET results == get(output_file.data, "Results", JList(<<>>))
           IN  IF iter_raises(results) THEN Raise("TypeError")
               ELSE collect([i \in 1..Len(results.items) |-> trivy_result(results.items[i])])

\* ------------------------------------------------------ inputs of the parsers

\* Result objects of a semgrep report: a full one; two that name the same place
\* with a lower-case and an unknown severity; one whose severity is null; an
\* empty one; one whose end line is before its start line.
SemgrepFull ==
  JDict("check_id" :> JStr(<<"t", ".", "u">>) @@ "path" :> JStr(<<"a", ".", "p", "y">>)
        @@ "start" :> JDict("line" :> JInt(1)) @@ "end" :> JDict("line" :> JInt(2))
        @@ "extra" :> JDict("message" :> JStr(<<"m">>) @@ "severity" :> JStr(<<"E", "R", "R", "O", "R">>)
                            @@ "lines" :> JStr(<<"c">>)
                            @@ "metadata" :> JDict("category" :> JStr(<<"x">>)
                                                   @@ "cwe" :> JList(<<JStr(<<"w">>), JStr(<<"z">>)>>))))

SemgrepAt(path, severity) ==
  JDict("check_id" :> JStr(<<"t", ".", "u">>) @@ "path" :> JStr(path)
        @@ "start" :> JDict("line" :> JInt(1)) @@ "end" :> JDict("line" :> JInt(1))
        @@ "extra" :> JDict("severity" :> severity))

SemgrepBackwards ==
  JDict("check_id" :> JStr(<<"t", ".", "u">>) @@ "path" :> JStr(<<"a", ".", "p", "y">>)
        @@ "start" :> JDict("line" :> JInt(2)) @@ "end" :> JDict("line" :> JInt(1))
        @@ "extra" :> JDict("severity" :> JStr(<<"I", "N", "F", "O">>)))

\* The files every parser is given whatever the tool: no file, a file that is
\* not text, not JSON, or JSON whose top level is not an object or holds
\* nothing.
CommonFiles ==
  {MissingFile, UndecodableFile, NotJsonFile,
   JsonFile(JList(<<>>)), JsonFile(JNull), JsonFile(JDict(EmptyDict))}

\* A result without "end".
SemgrepWithoutEnd ==
  JDict("check_id" :> JStr(<<"t", ".", "u">>) @@ "path" :> JStr(<<"a", ".", "p", "y">>)
        @@ "start" :> JDict("line" :> JInt(1))
        @@ "extra" :> JDict("severity" :> JStr(<<"I", "N", "F", "O">>)))

SemgrepFiles ==
  CommonFiles \cup
  {JsonFile(JDict("results" :> r)) :
     r \in {JNull, JInt(0), JList(<<>>),
            JList(<<SemgrepFull>>),
            JList(<<SemgrepAt(<<".", "/", "a", ".", "p", "y">>, JStr(<<"w", "a", "r", "n", "i", "n", "g">>)), SemgrepAt(<<"a", ".", "p", "y">>, JStr(<<"b", "o", "g", "u", "s">>))>>),
            JList(<<SemgrepAt(<<"a", ".", "p", "y">>, JStr(<<"I", "n", "f", "o">>)), SemgrepAt(<<"a", ".", "p", "y">>, JNull)>>),
            JList(<<JDict(EmptyDict)>>),
            JList(<<SemgrepBackwards>>),
            JList(<<SemgrepWithoutEnd>>)}}

\* Result objects of a bandit report.
BanditAt(severity) ==
  JDict("test_id" :> JStr(<<"B", "1">>) @@ "test_name" :> JStr(<<"T", " ", "U">>) @@ "issue_text" :> JStr(<<"x">>)
        @@ "issue_severity" :> severity @@ "filename" :> JStr(<<"a", ".", "p", "y">>)
        @@ "line_number" :> JInt(1) @@ "code" :> JStr(<<"c", "c">>)
        @@ "issue_cwe" :> JDict("id" :> JInt(89)) @@ "issue_confidence" :> JStr(<<"H", "I", "G", "H">>))

BanditFiles ==
  CommonFiles \cup
  {JsonFile(JDict("results" :> r)) :
     r \in {JNull, JList(<<>>),
            JList(<<BanditAt(JStr(<<"H", "I", "G", "H">>))>>),
            JList(<<BanditAt(JStr(<<"U", "N", "D", "E", "F", "I", "N", "E", "D">>))>>),
            JList(<<BanditAt(JStr(<<"l", "o", "w">>)), BanditAt(JNull)>>),
            JList(<<JDict(EmptyDict)>>)}}

\* Vulnerable packages of an npm audit report: by what 'via' holds (advisory
\* objects, names of other packages, both, nothing) and by severity.
NpmPackage(severity, via) ==
  JDict("name" :> JStr(<<"p">>) @@ "severity" :> severity @@ "via" :> via @@ "range" :> JStr(<<"r">>))

Advisory(advisory_title) == JDict("title" :> JStr(advisory_title) @@ "url" :> JStr(<<"u">>))

NpmFiles ==
  CommonFiles \cup
  {JsonFile(JDict("vulnerabilities" :> v)) :
     v \in {JNull, JList(<<>>), JDict(EmptyDict)}} \cup
  {JsonFile(JDict("vulnerabilities" :> JDict("p" :> package))) :
     package \in {NpmPackage(JStr(<<"h", "i", "g", "h">>), JList(<<Advisory(<<"t">>), Advisory(<<"v">>)>>)),
                  NpmPackage(JStr(<<"c", "r", "i", "t", "i", "c", "a", "l">>), JList(<<>>)),
                  NpmPackage(JStr(<<"h", "i", "g", "h">>), JList(<<JStr(<<"q">>)>>)),
                  NpmPackage(JStr(<<"L", "O", "W">>), JList(<<Advisory(<<"t">>), JStr(<<"q">>)>>)),
                  NpmPackage(JStr(<<"i", "n", "f", "o">>), JList(<<Advisory(<<"t">>)>>)),
                  NpmPackage(JNull, JList(<<Advisory(<<"t">>)>>)),
                  JDict(EmptyDict)}} \cup
  {JsonFile(JDict("vulnerabilities" :>
                    JDict("p" :> NpmPackage(JStr(<<"m", "o", "d", "e", "r", "a", "t", "e">>), JList(<<Advisory(<<"t">>)>>))
                          @@ "q" :> JDict("via" :> JList(<<JStr(<<"p">>)>>)))))}

\* Vulnerabilities and scanned targets of a trivy report.
TrivyVulnerability(severity) ==
  JDict("VulnerabilityID" :> JStr(<<"C", "1">>) @@ "PkgName" :> JStr(<<"p">>)
        @@ "InstalledVersion" :> JStr(<<"1">>) @@ "FixedVersion" :> JStr(<<"2">>)
        @@ "Severity" :> severity @@ "Title" :> JStr(<<"t">>) @@ "Description" :> JStr(<<"d">>)
        @@ "CweIDs" :> JList(<<JStr(<<"w">>)>>) @@ "References" :> JList(<<JStr(<<"u">>)>>))

TrivyTarget(vulnerabilities) ==
  JDict("Target" :> JStr(<<"p", "a", "c", "k", "a", "g", "e", ".", "j", "s", "o", "n">>) @@ "Vulnerabilities" :> vulnerabilities)

TrivyFiles ==
  CommonFiles \cup
  {JsonFile(JDict("Results" :> r)) :
     r \in {JNull, JList(<<>>),
            JList(<<JDict("Target" :> JStr(<<"p", "a", "c", "k", "a", "g", "e", ".", "j", "s", "o", "n">>))>>),
            JList(<<TrivyTarget(JNull)>>),
            JList(<<TrivyTarget(JList(<<TrivyVulnerability(JStr(<<"C", "R", "I", "T", "I", "C", "A", "L">>))>>))>>),
            JList(<<TrivyTarget(JList(<<TrivyVulnerability(JStr(<<"U", "N", "K", "N", "O", "W", "N">>))>>))>>),
            JList(<<TrivyTarget(JList(<<TrivyVulnerability(JStr(<<"m", "e", "d", "i", "u", "m">>)),
                                        TrivyVulnerability(JNull)>>))>>),
            JList(<<TrivyTarget(JList(<<JDict(EmptyDict)>>))>>)}}

\* ------------------------------------------------------ language_detector.py
\* LanguageDetector.EXTENSIONS.
EXTENSIONS ==
  <<".", "p", "y">> :> "python" @@ <<".", "j", "s">> :> "javascript" @@ <<".", "j", "s", "x">> :> "javascript"
  @@ <<".", "t", "s">> :> "typescript" @@ <<".", "t", "s", "x">> :> "typescript" @@ <<".", "j", "a", "v", "a">> :> "java"
  @@ <<".", "g", "o">> :> "go" @@ <<".", "r", "b">> :> "ruby" @@ <<".", "p", "h", "p">> :> "php" @@ <<".", "c">> :> "c"
  @@ <<".", "c", "p", "p">> :> "cpp" @@ <<".", "c", "s">> :> "csharp" @@ <<".", "r", "s">> :> "rust" @@ <<".", "s", "w", "i", "f", "t">> :> "swift"
  @@ <<".", "k", "t">> :> "kotlin" @@ <<".", "s", "c", "a", "l", "a">> :> "scala" @@ <<".", "s", "h">> :> "bash" @@ <<".", "y", "a", "m", "l">> :> "yaml"
  @@ <<".", "y", "m", "l">> :> "yaml" @@ <<".", "j", "s", "o", "n">> :> "json" @@ <<".", "s", "q", "l">> :> "sql" @@ <<".", "h", "t", "m", "l">> :> "html"
  @@ <<".", "c", "s", "s">> :> "css" @@ <<".", "v", "u", "e">> :> "vue"

\* The directories os.walk is kept out of.
SkippedDirectories ==
  {"node_modules", "venv", ".venv", "env", ".env", "__pycache__", ".git", ".github",
   "dist", "build", "target", "vendor", ".idea", ".vscode"}

\* detect_languages(max_depth = 3).
max_depth == 3

\* A file under the target: the directories from the target root down to it, its
\* name as a str, and what it holds (of interest for package.json only).
File(dirs, name, holds) == [dirs |-> dirs, name |-> name, holds |-> holds]

\* Path(file).suffix: from the last dot on, if that dot is neither the first nor
\* the last character of the name.
suffix(name) ==
  LET dots == {i \in 1..Len(name) : name[i] = "."}
  IN  IF dots = {} THEN <<>>
      ELSE LET p == CHOOSE i \in dots : \A j \in dots : j <= i
           IN  IF 1 < p /\ p < Len(name) THEN SubSeq(name, p, Len(name)) ELSE <<>>

\* The files os.walk reaches and detect_languages counts: in a directory at most
\* max_depth below the root, no directory on the way being a skipped one.
walked(files) ==
  {f \in files : Len(f.dirs) <= max_depth /\ \A i \in 1..Len(f.dirs) : f.dirs[i] \notin SkippedDirectories}

\* The language of a file by its extension, "" if it has none.
language_of(f) ==
  IF lower(suffix(f.name)) \in DOMAIN EXTENSIONS THEN EXTENSIONS[lower(suffix(f.name))] ELSE ""

\* LanguageDetector.detect_languages: language -> number of files.
detect_languages(files) ==
  [lang \in {language_of(f) : f \in walked(files)} \ {""} |->
     Cardinality({f \in walked(files) : language_of(f) = lang})]

\* (root_path / name).exists().
exists(files, name) == \E f \in files : f.dirs = <<>> /\ f.name = name

\* LanguageDetector.detect_frameworks as far as it can fail: _check_package_json
\* calls data.get on what json.load returned and catches JSONDecodeError and
\* IOError only.  The frameworks found are printed and not used.
detect_frameworks(files) ==
  IF \E f \in files : f.dirs = <<>> /\ f.name = <<"p", "a", "c", "k", "a", "g", "e", ".", "j", "s", "o", "n">> /\ f.holds = "array"
    THEN Raise("AttributeError") ELSE Return("frameworks")

\* LanguageDetector.get_summary, its 'languages' entry (primary_language and
\* frameworks are printed and not used).
get_summary(files) ==
  IF detect_frameworks(files).raised # "" THEN detect_frameworks(files)
  ELSE Return([languages |-> detect_languages(files)])

\* ------------------------------------------------------ run_security_scan.py
\* Variants of the selection of bandit, to show what the claim on it depends on.
bandit_selected_for_any_language(env) == DOMAIN env.languages # {}

\* scan: if "python" in env["languages"].
bandit_selected(env) == "python" \in DOMAIN env.languages

\* scan: if (self.target_path / "package.json").exists().
npm_audit_selected(files) == exists(files, <<"p", "a", "c", "k", "a", "g", "e", ".", "j", "s", "o", "n">>)

\* parser.parse(output_file) of the parser of a tool.
parse(tool_name, output_file) ==
  CASE tool_name = "semgrep" -> semgrep_parse(output_file)
    [] tool_name = "bandit" -> bandit_parse(output_file)
    [] tool_name = "npm_audit" -> npm_audit_parse(output_file)
    [] tool_name = "trivy" -> trivy_parse(output_file)

\* Mutant of output_file_of: one file name for every tool.
output_file_shared(tool_name) == "output.json"

\* run_tool: output_file = self.temp_dir / f"{tool_name}_output.json", as the
\* name of the file in the temporary directory.
output_file_of(tool_name) == tool_name \o "_output.json"

\* SecurityScanner.run_tool.  temp is the directory of the tools' output files,
\* tool_name -> file; available is what parser.is_available() answers; process is
\* what subprocess.run does: raise, or return after the tool has written output
\* (MissingFile: it has written none).  For npm_audit the output is the stdout
\* that run_tool itself writes to the file.
run_tool(tool_name, temp, available, process) ==
  IF ~available THEN [findings |-> <<>>, temp |-> temp, outcome |-> "not available"]
  ELSE IF process.kind = "raises" THEN [findings |-> <<>>, temp |-> temp, outcome |-> "error"]
  ELSE LET written == IF process.output = MissingFile THEN temp
                      ELSE [temp EXCEPT ![output_file_of(tool_name)] = process.output]
       IN  IF written[output_file_of(tool_name)] = MissingFile
             THEN [findings |-> <<>>, temp |-> written, outcome |-> "no output"]
           ELSE IF parse(tool_name, written[output_file_of(tool_name)]).raised # ""
             THEN [findings |-> <<>>, temp |-> written, outcome |-> "error"]
           ELSE [findings |-> parse(tool_name, written[output_file_of(tool_name)]).value,
                 temp |-> written, outcome |-> "parsed"]

\* ------------------------------------------------------- inputs of the scan
Tools == {"semgrep", "bandit", "npm_audit", "trivy"}

\* A temporary directory without files.
EmptyTempDir == [f \in {output_file_of(t) : t \in Tools} |-> MissingFile]

\* Targets: with and without Python files and package.json, at the root, in
\* skipped directories, at depth 3 and 4, with an upper-case extension, a hidden
\* file named like an extension, a package.json that holds a JSON array.
Targets ==
  {{},
   {File(<<>>, <<"a", ".", "p", "y">>, "text")},
   {File(<<>>, <<"b", ".", "j", "s">>, "text")},
   {File(<<>>, <<"p", "a", "c", "k", "a", "g", "e", ".", "j", "s", "o", "n">>, "object")},
   {File(<<>>, <<"p", "a", "c", "k", "a", "g", "e", ".", "j", "s", "o", "n">>, "array")},
   {File(<<>>, <<"a", ".", "p", "y">>, "text"), File(<<>>, <<"b", ".", "P", "Y">>, "text"), File(<<>>, <<"p", "a", "c", "k", "a", "g", "e", ".", "j", "s", "o", "n">>, "object")},
   {File(<<"node_modules">>, <<"c", ".", "p", "y">>, "text"), File(<<"sub">>, <<"p", "a", "c", "k", "a", "g", "e", ".", "j", "s", "o", "n">>, "object")},
   {File(<<"d", "e", "f">>, <<"x", ".", "P", "Y">>, "text")},
   {File(<<"d", "e", "f", "g">>, <<"x", ".", "p", "y">>, "text"), File(<<>>, <<".", "p", "y">>, "text"),
    File(<<>>, <<"p", "y", ".">>, "text"), File(<<>>, <<"r", "e", "q", "u", "i", "r", "e", "m", "e", "n", "t", "s", ".", "t", "x", "t">>, "text")}}

\* What a run of a tool leaves in its output file: a report with a result, or
\* JSON that is no object.
FreshOutput(tool_name) ==
  CASE tool_name = "semgrep" ->
         JsonFile(JDict("results" :> JList(<<SemgrepAt(<<"a", ".", "p", "y">>, JStr(<<"w", "a", "r", "n", "i", "n", "g">>))>>)))
    [] tool_name = "bandit" -> JsonFile(JDict("results" :> JList(<<BanditAt(JStr(<<"H", "I", "G", "H">>))>>)))
    [] tool_name = "npm_audit" ->
         JsonFile(JDict("vulnerabilities" :>
                          JDict("p" :> NpmPackage(JStr(<<"h", "i", "g", "h">>), JList(<<Advisory(<<"t">>)>>)))))
    [] tool_name = "trivy" ->
         JsonFile(JDict("Results" :>
                          JList(<<TrivyTarget(JList(<<TrivyVulnerability(JStr(<<"C", "R", "I", "T", "I", "C", "A", "L">>))>>))>>)))

\* A semgrep report whose second result has null for its path.
NullPathOutput ==
  JsonFile(JDict("results" :> JList(<<SemgrepAt(<<"a", ".", "p", "y">>, JStr(<<"w", "a", "r", "n", "i", "n", "g">>)),
                                      JDict("check_id" :> JStr(<<"t", ".", "u">>) @@ "path" :> JNull
                                            @@ "extra" :> JDict("severity" :> JStr(<<"E", "R", "R", "O", "R">>)))>>)))

\* What an earlier run of a tool has left in the same output directory.
StaleOutput(tool_name) ==
  CASE tool_name = "semgrep" -> JsonFile(JDict("results" :> JList(<<SemgrepFull>>)))
    [] tool_name = "bandit" -> JsonFile(JDict("results" :> JList(<<BanditAt(JStr(<<"U", "N", "D", "E", "F", "I", "N", "E", "D">>))>>)))
    [] tool_name = "npm_audit" ->
         JsonFile(JDict("vulnerabilities" :> JDict("q" :> NpmPackage(JStr(<<"c", "r", "i", "t", "i", "c", "a", "l">>), JList(<<>>)))))
    [] tool_name = "trivy" ->
         JsonFile(JDict("Results" :>
                          JList(<<TrivyTarget(JList(<<TrivyVulnerability(JStr(<<"U", "N", "K", "N", "O", "W", "N">>))>>))>>)))

\* What subprocess.run can do with a tool that is available.  npm audit's stdout
\* is written to the file whatever it is, hence never no file.
ProcessOutcomes(tool_name) ==
  {[kind |-> "raises"]} \cup
  {[kind |-> "exits", output |-> f] :
     f \in CASE tool_name = "npm_audit" -> {NotJsonFile, FreshOutput(tool_name)}
            [] tool_name = "semgrep" -> {MissingFile, JsonFile(JList(<<>>)), FreshOutput(tool_name),
                                         NullPathOutput}
            [] OTHER -> {MissingFile, JsonFile(JList(<<>>)), FreshOutput(tool_name)}}

\* The temporary directory as __init__ finds or makes it (mkdir(exist_ok=True)):
\* empty, or with the output file of one tool left by an earlier scan.
TempDirs ==
  {EmptyTempDir} \cup
  {[EmptyTempDir EXCEPT ![output_file_of(stale)] = StaleOutput(stale)] : stale \in Tools}

\* -------------------------------------------------------------------- state
VARIABLES
  fingerprint_map,  \* FindingDeduplicator.fingerprint_map
  log,              \* the Findings passed to add_finding so far, in call order
  op,               \* the operation called last
  ret,              \* what it returned
  prev_map,         \* fingerprint_map as it was when that operation was called
  call,             \* the last call of a function outside the deduplicator
  parsed,           \* how many times a parser's parse has been called
  host,             \* the files SecurityScanner works on: target_path, temp_dir
  env,              \* scan's env, the summary of detect_environment
  pc,               \* where SecurityScanner.scan is
  attempts,         \* the calls of run_tool so far and what they returned
  phases,           \* the phases the program has entered, in order
  raised,           \* the class of the exception that reached run's handlers, "" if none
  status,           \* the exit status of the process, NoStatus until it is decided
  heap              \* the objects of the interpreter: Findings, their dicts and lists

vars ==
  <<fingerprint_map, log, op, ret, prev_map, call, parsed, host, env, pc, attempts, phases,
    raised, status, heap>>

\* The state of a scan.
scan_vars == <<host, env, pc, attempts, phases, raised, status>>

\* The process has not exited.
NoStatus == -1

\* No object exists, no call was made on objects.
NoHeap ==
  [objects |-> <<>>, fingerprint_map |-> <<>>, op |-> "none", before |-> <<>>,
   self |-> 0, other |-> 0, result |-> 0]

\* No scan is going on.
NoHost ==
  [target_exists |-> FALSE, target |-> {}, output_dir |-> FALSE, temp_dir |-> FALSE,
   temp |-> <<>>, processes |-> {}]

NoEnv == [languages |-> <<>>]

\* No such call has been made.
NoCall == [fn |-> "none"]

\* FindingDeduplicator.__init__.
Init ==
  /\ fingerprint_map = <<>>
  /\ log = <<>>
  /\ op = "__init__"
  /\ ret = FALSE
  /\ prev_map = <<>>
  /\ call = NoCall
  /\ parsed = 0
  /\ host = NoHost
  /\ env = NoEnv
  /\ pc = "none"
  /\ attempts = <<>>
  /\ phases = <<>>
  /\ raised = ""
  /\ status = NoStatus
  /\ heap = NoHeap

AddFinding ==
  /\ Len(log) < MaxAdds
  /\ \E finding \in Findings :
       /\ fingerprint_map' = add_finding_map(fingerprint_map, finding)
       /\ ret' = add_finding_ret(fingerprint_map, finding)
       /\ log' = Append(log, finding)
  /\ op' = "add_finding"
  /\ prev_map' = fingerprint_map
  /\ UNCHANGED <<call, parsed, scan_vars, heap>>

\* The lists add_findings is called with: of no, one and two Findings, with
\* and without a repeated fingerprint.
FindingLists ==
  LET some == {FindingAt(i, c) : i \in SamePlace, c \in {FirstContribution}}
                \cup {FindingAt(i, FirstContribution) : i \in OtherPlaces}
  IN  {<<>>} \cup {<<f>> : f \in some} \cup {<<f, g>> : f \in some, g \in Findings}

AddFindings ==
  /\ \E findings \in FindingLists :
       /\ Len(log) + Len(findings) <= MaxAdds
       /\ fingerprint_map' = add_findings(fingerprint_map, findings)
       /\ log' = log \o findings
  /\ op' = "add_findings"
  /\ ret' = FALSE
  /\ prev_map' = fingerprint_map
  /\ UNCHANGED <<call, parsed, scan_vars, heap>>

GetUniqueFindings ==
  /\ op' = "get_unique_findings"
  /\ ret' = get_unique_findings(fingerprint_map)
  /\ prev_map' = fingerprint_map
  /\ UNCHANGED <<fingerprint_map, log, call, parsed, scan_vars, heap>>

GetStatistics ==
  /\ op' = "get_statistics"
  /\ ret' = get_statistics(fingerprint_map)
  /\ prev_map' = fingerprint_map
  /\ UNCHANGED <<fingerprint_map, log, call, parsed, scan_vars, heap>>

Next == AddFinding \/ AddFindings \/ GetUniqueFindings \/ GetStatistics

Spec == Init /\ [][Next]_vars

\* ------------------------------------------- specification: the normalizer
\* normalize_severity called once, with any tool name and severity.
NormalizeSeverity ==
  /\ call = NoCall
  /\ \E tool \in ToolNames, severity \in SeverityValues :
       call' = [fn |-> "normalize_severity", tool |-> tool, severity |-> severity,
                result |-> normalize_severity(tool, severity)]
  /\ UNCHANGED <<fingerprint_map, log, op, ret, prev_map, parsed, scan_vars, heap>>

NextNormalize == NormalizeSeverity

SpecNormalize == Init /\ [][NextNormalize]_vars

\* --------------------------------------------- specification: the parsers
\* Each parser's parse called on any of its files, and the Findings it returns
\* added to the deduplicator as SecurityScanner.scan adds them.
ParseCall(fn, output_file, result) ==
  [fn |-> fn, file |-> output_file, added |-> FALSE, result |-> result]

ParseSemgrep ==
  /\ parsed < MaxParses
  /\ \E output_file \in SemgrepFiles :
       call' = ParseCall("SemgrepParser.parse", output_file, semgrep_parse(output_file))
  /\ parsed' = parsed + 1
  /\ UNCHANGED <<fingerprint_map, log, op, ret, prev_map, scan_vars, heap>>

ParseBandit ==
  /\ parsed < MaxParses
  /\ \E output_file \in BanditFiles :
       call' = ParseCall("BanditParser.parse", output_file, bandit_parse(output_file))
  /\ parsed' = parsed + 1
  /\ UNCHANGED <<fingerprint_map, log, op, ret, prev_map, scan_vars, heap>>

ParseNpmAudit ==
  /\ parsed < MaxParses
  /\ \E output_file \in NpmFiles :
       call' = ParseCall("NpmAuditParser.parse", output_file, npm_audit_parse(output_file))
  /\ parsed' = parsed + 1
  /\ UNCHANGED <<fingerprint_map, log, op, ret, prev_map, scan_vars, heap>>

ParseTrivy ==
  /\ parsed < MaxParses
  /\ \E output_file \in TrivyFiles :
       call' = ParseCall("TrivyParser.parse", output_file, trivy_parse(output_file))
  /\ parsed' = parsed + 1
  /\ UNCHANGED <<fingerprint_map, log, op, ret, prev_map, scan_vars, heap>>

ParseFunctions ==
  {"SemgrepParser.parse", "BanditParser.parse", "NpmAuditParser.parse", "TrivyParser.parse"}

\* self.deduplicator.add_findings(findings) on what the last parse returned.
AddParsed ==
  /\ call.fn \in ParseFunctions
  /\ ~call.added
  /\ call.result.raised = ""
  /\ fingerprint_map' = add_findings(fingerprint_map, call.result.value)
  /\ log' = log \o call.result.value
  /\ op' = "add_findings"
  /\ ret' = FALSE
  /\ prev_map' = fingerprint_map
  /\ call' = [call EXCEPT !.added = TRUE]
  /\ UNCHANGED <<parsed, scan_vars, heap>>

NextParse == ParseSemgrep \/ ParseBandit \/ ParseNpmAudit \/ ParseTrivy \/ AddParsed

SpecParse == Init /\ [][NextParse]_vars

\* ------------------------------------------------ specification: the scan
\* What the output directory can hold when the program starts: nothing (it
\* does not exist), no temporary directory, or a temporary directory of an
\* earlier scan.
OutputDirs ==
  {[output_dir |-> FALSE, temp_dir |-> FALSE, temp |-> EmptyTempDir],
   [output_dir |-> TRUE, temp_dir |-> FALSE, temp |-> EmptyTempDir]}
  \cup {[output_dir |-> TRUE, temp_dir |-> TRUE, temp |-> temp] : temp \in TempDirs}

Host(target_exists, target, dirs) ==
  [target_exists |-> target_exists, target |-> target, output_dir |-> dirs.output_dir,
   temp_dir |-> dirs.temp_dir, temp |-> dirs.temp, processes |-> {}]

\* The program is started, main is about to look at its target: a path that
\* does not exist, or any of the targets.
InitScan ==
  /\ fingerprint_map = <<>>
  /\ log = <<>>
  /\ op = "__init__"
  /\ ret = FALSE
  /\ prev_map = <<>>
  /\ call = NoCall
  /\ parsed = 0
  /\ host \in {Host(FALSE, {}, dirs) : dirs \in OutputDirs}
              \cup {Host(TRUE, target, dirs) : target \in Targets, dirs \in OutputDirs}
  /\ env = NoEnv
  /\ pc = "main"
  /\ attempts = <<>>
  /\ phases = <<>>
  /\ raised = ""
  /\ status = NoStatus
  /\ heap = NoHeap

\* Entering a phase, once.
entered(phase) == IF phases # <<>> /\ phases[Len(phases)] = phase THEN phases ELSE Append(phases, phase)

\* No validation of the target.
target_path_taken_to_exist(h) == TRUE

\* Path(args.target).exists().
target_path_exists(h) == h.target_exists

\* main: sys.exit(1) if the target does not exist; SecurityScanner.__init__
\* (output_dir.mkdir(parents=True, exist_ok=True), temp_dir.mkdir(exist_ok=True))
\* and the call of run otherwise.
Main ==
  /\ pc = "main"
  /\ IF ~target_path_exists(host)
       THEN pc' = "exited" /\ status' = 1 /\ UNCHANGED <<host, phases>>
       ELSE /\ host' = [host EXCEPT !.output_dir = TRUE, !.temp_dir = TRUE]
            /\ pc' = "scan"
            /\ phases' = entered("Init")
            /\ UNCHANGED status
  /\ UNCHANGED <<fingerprint_map, log, op, ret, prev_map, call, parsed, heap, env, attempts, raised>>

\* scan: env = self.detect_environment().  An exception leaves scan and is
\* caught by run (except Exception: sys.exit(1), then finally).
DetectEnvironment ==
  /\ pc = "scan"
  /\ \E summary \in {get_summary(host.target)} :
       IF summary.raised # ""
         THEN pc' = "cleanup" /\ raised' = summary.raised /\ status' = 1 /\ UNCHANGED env
         ELSE pc' = "semgrep" /\ env' = summary.value /\ UNCHANGED <<raised, status>>
  /\ phases' = entered("DetectEnvironment")
  /\ UNCHANGED <<fingerprint_map, log, op, ret, prev_map, call, parsed, heap, host, attempts>>

\* run_tool up to subprocess.run for one tool: a tool that is not available is
\* passed over, run_tool returns [] and scan adds it; the process of a tool that
\* is available is started.
StartTool(tool_name, running, next) ==
  /\ phases' = entered("RunAdapters")
  /\ \E available \in BOOLEAN :
       IF available
         THEN /\ host' = [host EXCEPT !.processes = @ \cup {tool_name}]
              /\ pc' = running
              /\ UNCHANGED <<fingerprint_map, log, op, ret, prev_map, attempts>>
         ELSE LET r == run_tool(tool_name, host.temp, FALSE, [kind |-> "not run"])
              IN  /\ attempts' = Append(attempts, [tool |-> tool_name, available |-> FALSE,
                                                   process |-> [kind |-> "not run"],
                                                   output_file |-> "",
                                                   outcome |-> r.outcome, findings |-> r.findings])
                  /\ fingerprint_map' = add_findings(fingerprint_map, r.findings)
                  /\ log' = log \o r.findings
                  /\ op' = "add_findings"
                  /\ ret' = FALSE
                  /\ prev_map' = fingerprint_map
                  /\ pc' = next
                  /\ UNCHANGED host

\* run_tool from the end of subprocess.run on, and
\* self.deduplicator.add_findings(findings): an exception of add_findings leaves
\* scan and is caught by run.
FinishTool(tool_name, next) ==
  \E process \in ProcessOutcomes(tool_name) :
  \E r \in {run_tool(tool_name, host.temp, TRUE, process)} :
  \E added \in {add_findings_outcome(fingerprint_map, r.findings)} :
        /\ host' = [host EXCEPT !.temp = r.temp, !.processes = @ \ {tool_name}]
        /\ attempts' = Append(attempts, [tool |-> tool_name, available |-> TRUE,
                                         process |-> process, outcome |-> r.outcome,
                                         output_file |-> output_file_of(tool_name),
                                         findings |-> r.findings])
        /\ fingerprint_map' = added.map
        /\ log' = log \o added.added
        /\ op' = "add_findings"
        /\ ret' = FALSE
        /\ prev_map' = fingerprint_map
        /\ IF added.raised = "" THEN pc' = next /\ UNCHANGED <<raised, status>>
           ELSE pc' = "cleanup" /\ raised' = added.raised /\ status' = 1

StartSemgrep ==
  /\ pc = "semgrep"
  /\ StartTool("semgrep", "semgrep running", "bandit")
  /\ UNCHANGED <<call, parsed, heap, env, raised, status>>

FinishSemgrep ==
  /\ pc = "semgrep running"
  /\ FinishTool("semgrep", "bandit")
  /\ UNCHANGED <<call, parsed, heap, env, phases>>

StartBandit ==
  /\ pc = "bandit"
  /\ IF bandit_selected(env) THEN StartTool("bandit", "bandit running", "npm_audit")
     ELSE pc' = "npm_audit"
          /\ UNCHANGED <<fingerprint_map, log, op, ret, prev_map, host, attempts, phases>>
  /\ UNCHANGED <<call, parsed, heap, env, raised, status>>

FinishBandit ==
  /\ pc = "bandit running"
  /\ FinishTool("bandit", "npm_audit")
  /\ UNCHANGED <<call, parsed, heap, env, phases>>

StartNpmAudit ==
  /\ pc = "npm_audit"
  /\ IF npm_audit_selected(host.target) THEN StartTool("npm_audit", "npm_audit running", "trivy")
     ELSE pc' = "trivy"
          /\ UNCHANGED <<fingerprint_map, log, op, ret, prev_map, host, attempts, phases>>
  /\ UNCHANGED <<call, parsed, heap, env, raised, status>>

FinishNpmAudit ==
  /\ pc = "npm_audit running"
  /\ FinishTool("npm_audit", "trivy")
  /\ UNCHANGED <<call, parsed, heap, env, phases>>

StartTrivy ==
  /\ pc = "trivy"
  /\ StartTool("trivy", "trivy running", "get_unique_findings")
  /\ UNCHANGED <<call, parsed, heap, env, raised, status>>

FinishTrivy ==
  /\ pc = "trivy running"
  /\ FinishTool("trivy", "get_unique_findings")
  /\ UNCHANGED <<call, parsed, heap, env, phases>>

\* scan: unique_findings = self.deduplicator.get_unique_findings(); return.
ReturnUniqueFindings ==
  /\ pc = "get_unique_findings"
  /\ op' = "get_unique_findings"
  /\ ret' = get_unique_findings(fingerprint_map)
  /\ prev_map' = fingerprint_map
  /\ pc' = "returned"
  /\ phases' = entered("Deduplicate")
  /\ UNCHANGED <<fingerprint_map, log, call, parsed, heap, host, env, attempts, raised, status>>

\* run: "if findings: self.generate_reports(findings)", which ends with the
\* statistics, "else: print"; then the end of the try block.  The report
\* generators either write their files or raise.
GenerateReports ==
  /\ pc = "returned"
  /\ IF ret = <<>>
       THEN status' = 0 /\ UNCHANGED <<op, ret, prev_map, phases, raised>>
       ELSE /\ phases' = entered("Report")
            /\ \E written \in BOOLEAN :
                 IF written
                   THEN /\ op' = "get_statistics"
                        /\ ret' = get_statistics(fingerprint_map)
                        /\ prev_map' = fingerprint_map
                        /\ status' = 0
                        /\ UNCHANGED raised
                   ELSE raised' = "Exception" /\ status' = 1 /\ UNCHANGED <<op, ret, prev_map>>
  /\ pc' = "cleanup"
  /\ UNCHANGED <<fingerprint_map, log, call, parsed, heap, host, env, attempts>>

\* The statements of run's try block, where Ctrl-C raises KeyboardInterrupt.
InTry ==
  pc \in {"scan", "semgrep", "semgrep running", "bandit", "bandit running", "npm_audit",
          "npm_audit running", "trivy", "trivy running", "get_unique_findings", "returned"}

\* run: except KeyboardInterrupt: sys.exit(1).  run_tool's "except Exception"
\* does not catch it; subprocess.run kills the process it waits for.
Interrupt ==
  /\ InTry
  /\ host' = [host EXCEPT !.processes = {}]
  /\ raised' = "KeyboardInterrupt"
  /\ status' = 1
  /\ pc' = "cleanup"
  /\ UNCHANGED <<fingerprint_map, log, op, ret, prev_map, call, parsed, heap, env, attempts, phases>>

\* cleanup that removes nothing.
cleanup_leaves_temp_dir(h) == h

\* cleanup: shutil.rmtree(self.temp_dir) if it exists.
cleanup(h) ==
  IF h.temp_dir THEN [h EXCEPT !.temp_dir = FALSE, !.temp = EmptyTempDir]
  ELSE h

\* run: finally: self.cleanup(), then the process exits.
Cleanup ==
  /\ pc = "cleanup"
  /\ host' = cleanup(host)
  /\ phases' = entered("Cleanup")
  /\ pc' = "exited"
  /\ UNCHANGED <<fingerprint_map, log, op, ret, prev_map, call, parsed, heap, env, attempts, raised,
                 status>>

NextScan ==
  \/ Main \/ DetectEnvironment
  \/ StartSemgrep \/ FinishSemgrep \/ StartBandit \/ FinishBandit
  \/ StartNpmAudit \/ FinishNpmAudit \/ StartTrivy \/ FinishTrivy
  \/ ReturnUniqueFindings \/ GenerateReports \/ Interrupt \/ Cleanup

SpecScan == InitScan /\ [][NextScan]_vars

\* --------------------------------------------- specification: the objects
\* Findings, metadata dicts and 'tools' lists as objects with an identity: an
\* object is at an address, the index of it in the sequence of all objects.  A
\* Finding object holds the address of its metadata dict, a dict holds the
\* address of its 'tools' list; strs and ints are immutable and held by value.
MaxObjects == 10

Object(kind, value) == [kind |-> kind, value |-> value]

\* A new object, at address Len(objects) + 1.
allocate(objects, object) == Append(objects, object)

\* The dict at an address, read through to its 'tools' list.
metadata_at(objects, address) ==
  LET d == objects[address].value
  IN  [k \in DOMAIN d |-> IF k = "tools" THEN objects[d[k]].value ELSE d[k]]

\* The Finding at an address, read through to its metadata.
finding_at(objects, address) ==
  [objects[address].value EXCEPT !.metadata = metadata_at(objects, @)]

\* Finding(..., metadata={...}) as a parser calls it: a new dict, a new Finding.
construct(objects, finding) ==
  LET with_dict == allocate(objects, Object("dict", finding.metadata))
  IN  allocate(with_dict, Object("Finding", [finding EXCEPT !.metadata = Len(with_dict)]))

\* Mutant of set_tools: the list the dict already has is extended in place.
set_tools_in_place(objects, dict, tools) ==
  IF "tools" \in DOMAIN objects[dict].value
    THEN [objects EXCEPT ![objects[dict].value["tools"]].value = tools]
    ELSE LET with_list == allocate(objects, Object("list", tools))
         IN  [with_list EXCEPT ![dict].value = dict_set(@, "tools", Len(with_list))]

\* merge_with: merged_metadata["tools"] = list(set(... + [...])) or [self.tool,
\* other.tool]: a new list, bound to the key in the new dict.
set_tools(objects, dict, tools) ==
  LET with_list == allocate(objects, Object("list", tools))
  IN  [with_list EXCEPT ![dict].value = dict_set(@, "tools", Len(with_list))]

\* Finding.merge_with on objects: {**self.metadata, **other.metadata} is a
\* new dict that shares its values with the two dicts, the 'tools' list
\* included; the result is a new Finding, the last object.
merge_with_objects(objects, self, other) ==
  LET unpacked == dict_union(objects[objects[self].value.metadata].value,
                             objects[objects[other].value.metadata].value)
      with_dict == allocate(objects, Object("dict", unpacked))
      merged_metadata_address == Len(with_dict)
      tools == merged_tools_list(finding_at(objects, self), finding_at(objects, other),
                                 metadata_at(with_dict, merged_metadata_address))
      with_tools == set_tools(with_dict, merged_metadata_address, tools)
      merged == merge_with(finding_at(objects, self), finding_at(objects, other))
  IN  allocate(with_tools,
               Object("Finding", [merged EXCEPT !.metadata = merged_metadata_address]))

\* The addresses of the Findings.
FindingAddresses(objects) == {a \in 1..Len(objects) : objects[a].kind = "Finding"}

\* The Findings the callers construct: two of one fingerprint and one of another.
HeapFindings ==
  {FindingAt(i, c) : i \in {CHOOSE p \in SamePlace : p.file_path = <<"a", ".", "p", "y">>},
                     c \in {c \in Contributions : c.severity \in {"HI", "CR"}}}
    \cup {FindingAt(CHOOSE p \in OtherPlaces : p.line_start = 2, FirstContribution)}

InitHeap ==
  /\ fingerprint_map = <<>>
  /\ log = <<>>
  /\ op = "__init__"
  /\ ret = FALSE
  /\ prev_map = <<>>
  /\ call = NoCall
  /\ parsed = 0
  /\ host = NoHost
  /\ env = NoEnv
  /\ pc = "none"
  /\ attempts = <<>>
  /\ phases = <<>>
  /\ raised = ""
  /\ status = NoStatus
  /\ heap = NoHeap

\* A caller constructs a Finding.
Construct ==
  /\ Len(heap.objects) + 2 <= MaxObjects
  /\ \E finding \in HeapFindings :
       heap' = [heap EXCEPT !.objects = construct(heap.objects, finding), !.op = "Finding",
                            !.before = heap.objects, !.self = 0, !.other = 0,
                            !.result = Len(heap.objects) + 2]
  /\ UNCHANGED <<fingerprint_map, log, op, ret, prev_map, call, parsed, scan_vars>>

\* a.merge_with(b) for two Findings that exist, the same one twice included.
MergeWithObjects ==
  /\ Len(heap.objects) + 3 <= MaxObjects
  /\ \E self \in FindingAddresses(heap.objects), other \in FindingAddresses(heap.objects) :
       heap' = [heap EXCEPT !.objects = merge_with_objects(heap.objects, self, other),
                            !.op = "merge_with", !.before = heap.objects, !.self = self,
                            !.other = other, !.result = Len(heap.objects) + 3]
  /\ UNCHANGED <<fingerprint_map, log, op, ret, prev_map, call, parsed, scan_vars>>

\* FindingDeduplicator.add_finding(finding) for a Finding that exists: the
\* mapping holds the address of the Finding itself when the fingerprint is new,
\* the address of the result of merge_with otherwise.
AddFindingObject ==
  /\ Len(heap.objects) + 3 <= MaxObjects
  /\ \E finding \in FindingAddresses(heap.objects) :
       LET fingerprint == get_fingerprint(finding_at(heap.objects, finding))
           stored == dict_get(heap.fingerprint_map, fingerprint)
       IN  /\ IF fingerprint \in dict_keys(heap.fingerprint_map)
                THEN heap' = [heap EXCEPT
                                !.objects = merge_with_objects(heap.objects, stored, finding),
                                !.fingerprint_map = dict_put(@, fingerprint, Len(heap.objects) + 3),
                                !.op = "add_finding", !.before = heap.objects,
                                !.self = stored, !.other = finding,
                                !.result = Len(heap.objects) + 3]
                ELSE heap' = [heap EXCEPT
                                !.fingerprint_map = dict_put(@, fingerprint, finding),
                                !.op = "add_finding", !.before = heap.objects,
                                !.self = 0, !.other = finding, !.result = 0]
           /\ fingerprint_map' = add_finding_map(fingerprint_map, finding_at(heap.objects, finding))
           /\ ret' = add_finding_ret(fingerprint_map, finding_at(heap.objects, finding))
           /\ log' = Append(log, finding_at(heap.objects, finding))
  /\ op' = "add_finding"
  /\ prev_map' = fingerprint_map
  /\ UNCHANGED <<call, parsed, scan_vars>>

NextHeap == Construct \/ MergeWithObjects \/ AddFindingObject

SpecHeap == InitHeap /\ [][NextHeap]_vars

\* ------------------------------------------------- vocabulary of the claims
\* The mapping a dict holds, its insertion order put aside.
Content(d) == [k \in dict_keys(d) |-> dict_get(d, k)]

\* Every arrival order of the Findings added so far.
ArrivalOrders ==
  {[i \in 1..Len(log) |-> log[p[i]]] : p \in Permutations(1..Len(log))}

\* The Finding passed to the add_finding call just made, its fingerprint, and
\* the entry stored under that fingerprint before and after the call.
Added == log[Len(log)]

AddedKey == get_fingerprint(Added)

Merged == op = "add_finding" /\ AddedKey \in dict_keys(prev_map)

StoredBefore == dict_get(prev_map, AddedKey)

StoredAfter == dict_get(fingerprint_map, AddedKey)

\* The calls that contributed to the entry stored under key k.
Contributors(k) == {i \in 1..Len(log) : get_fingerprint(log[i]) = k}

\* ------------------------------------------------------------------- claims
\* C1: adding the same Findings to a fresh deduplicator in any arrival order
\* yields the same fingerprints and, under each, a Finding equal in every field.
C1_ArrivalOrderIrrelevant ==
  \A order \in ArrivalOrders :
    Content(add_findings(<<>>, order)) = Content(fingerprint_map)

\* C2: merge_with is commutative: when a Finding is merged into a stored one
\* with the same fingerprint, stored.merge_with(added) equals
\* added.merge_with(stored) in every field.
C2_MergeCommutative ==
  Merged => StoredAfter = merge_with(Added, StoredBefore)

\* C3 as stated: merge_with is idempotent: merging a Finding into a stored
\* Finding equal to it leaves a Finding equal to it in every field, metadata
\* included.
C3_MergeIdempotent ==
  (Merged /\ StoredBefore = Added) => StoredAfter = Added

\* A Finding merged with itself: every field but metadata is unchanged.
SameButMetadata(f, g) ==
  /\ f.tool = g.tool /\ f.title = g.title /\ f.severity = g.severity
  /\ f.category = g.category /\ f.file_path = g.file_path
  /\ f.line_start = g.line_start /\ f.line_end = g.line_end
  /\ f.code_snippet = g.code_snippet /\ f.description = g.description
  /\ f.cwe = g.cwe

\* C3 (amended): a.merge_with(a) equals a in every field except metadata; the
\* tool field stays the single original tool name; metadata keeps every
\* key/value pair of a other than 'tools' and has a 'tools' entry that lists
\* a's tool.
C3_MergeIdempotentButMetadata ==
  (Merged /\ StoredBefore = Added) =>
    /\ SameButMetadata(StoredAfter, Added)
    /\ DOMAIN StoredAfter.metadata = (DOMAIN Added.metadata) \cup {"tools"}
    /\ \A k \in (DOMAIN Added.metadata) \ {"tools"} :
         StoredAfter.metadata[k] = Added.metadata[k]
    /\ Added.tool \in BagToSet(StoredAfter.metadata["tools"])

\* C3 witness: a Finding has been added twice, the second merged into the first.
C3_Witness ==
  /\ Merged
  /\ StoredBefore = Added
  /\ Len(log) = 2
  /\ log[1] = log[2]

\* The identity tuple as C4 states it: file_path with only a leading "./"
\* prefix removed, line_start, category, title.
IdentityTuple(f) ==
  << IF Len(f.file_path) >= 2 /\ f.file_path[1] = "." /\ f.file_path[2] = "/"
       THEN SubSeq(f.file_path, 3, Len(f.file_path)) ELSE f.file_path,
     f.line_start, f.category, f.title >>

\* C4: add_finding merges a Finding into an existing entry if and only if an
\* earlier added Finding has the same identity tuple; Findings whose tuples
\* differ are stored as separate entries.
C4_MergedIffSameIdentity ==
  op = "add_finding" =>
    (Merged <=> \E i \in 1..(Len(log) - 1) : IdentityTuple(log[i]) = IdentityTuple(Added))

\* Equal values in the four fingerprinted fields.
SameFourFields(f, g) ==
  /\ f.file_path = g.file_path /\ f.line_start = g.line_start
  /\ f.category = g.category /\ f.title = g.title

\* C5: the fingerprint depends on (file_path, line_start, category, title)
\* only: two added Findings with equal values in those four fields have equal
\* fingerprints, whatever their other fields, and the later one is merged.
C5_FingerprintOfFourFields ==
  /\ \A i, j \in 1..Len(log) :
       SameFourFields(log[i], log[j]) => get_fingerprint(log[i]) = get_fingerprint(log[j])
  /\ op = "add_finding" =>
       ((\E i \in 1..(Len(log) - 1) : SameFourFields(log[i], Added)) => ret = FALSE)

\* C5 witness: two Findings equal in the four fields and different in each of
\* the other seven have been added, and the second was merged.
C5_Witness ==
  /\ Len(log) = 2
  /\ SameFourFields(log[1], log[2])
  /\ log[1].tool # log[2].tool /\ log[1].severity # log[2].severity
  /\ log[1].line_end # log[2].line_end /\ log[1].code_snippet # log[2].code_snippet
  /\ log[1].description # log[2].description /\ log[1].cwe # log[2].cwe
  /\ log[1].metadata # log[2].metadata
  /\ op = "add_finding" /\ ret = FALSE

\* The distinct fingerprints among the Findings added so far.
AddedFingerprints == {get_fingerprint(log[i]) : i \in 1..Len(log)}

\* C6: after N add_finding calls the number of unique findings, and the
\* statistics total, equal the number of distinct fingerprints among the N
\* added Findings, and are never more than N.
C6_CountIsDistinctFingerprints ==
  /\ Len(get_unique_findings(fingerprint_map)) = Cardinality(AddedFingerprints)
  /\ Len(get_unique_findings(fingerprint_map)) <= Len(log)
  /\ op = "get_unique_findings" => Len(ret) = Cardinality(AddedFingerprints)
  /\ op = "get_statistics" => ret.total = Cardinality(AddedFingerprints)

\* C6 witness: three Findings with two distinct fingerprints were added and the
\* statistics were read.
C6_Witness ==
  /\ Len(log) = 3
  /\ Cardinality(AddedFingerprints) = 2
  /\ op = "get_statistics"
  /\ ret.total = 2

\* C7: add_finding returns TRUE exactly when no entry with the Finding's
\* fingerprint was stored before the call (the Finding is then inserted
\* unchanged), and FALSE exactly when one was (the entry is then replaced by the
\* merge of the stored entry with the Finding, and the number of entries is
\* unchanged).  Entries under other fingerprints are left as they were.
C7_AddFindingReturn ==
  op = "add_finding" =>
    /\ ret = (AddedKey \notin dict_keys(prev_map))
    /\ ret = TRUE =>
         /\ StoredAfter = Added
         /\ Len(fingerprint_map) = Len(prev_map) + 1
    /\ ret = FALSE =>
         /\ StoredAfter = merge_with(StoredBefore, Added)
         /\ Len(fingerprint_map) = Len(prev_map)
    /\ \A k \in dict_keys(prev_map) \ {AddedKey} :
         dict_get(fingerprint_map, k) = dict_get(prev_map, k)

\* C7 witness: a call that merged, made on a deduplicator holding two entries.
C7_Witness ==
  /\ op = "add_finding"
  /\ ret = FALSE
  /\ Len(prev_map) = 2
  /\ Len(fingerprint_map) = 2

\* C8: get_statistics returns by_severity with exactly the four buckets CR, HI,
\* ME, LO, whose counts sum to total, and total is the number of unique findings.
C8_SeverityBucketsSumToTotal ==
  op = "get_statistics" =>
    /\ DOMAIN ret.by_severity = {"CR", "HI", "ME", "LO"}
    /\ ret.by_severity["CR"] + ret.by_severity["HI"]
         + ret.by_severity["ME"] + ret.by_severity["LO"] = ret.total
    /\ ret.total = Len(get_unique_findings(fingerprint_map))
    /\ \A s \in {"CR", "HI", "ME", "LO"} :
         ret.by_severity[s] =
           Cardinality({i \in 1..Len(fingerprint_map) : fingerprint_map[i][2].severity = s})

\* C8 witness: statistics read over three unique findings, two of them in the
\* same severity bucket.
C8_Witness ==
  /\ op = "get_statistics"
  /\ ret.total = 3
  /\ \E s \in {"CR", "HI", "ME", "LO"} : ret.by_severity[s] = 2

\* The scenario of C9: a High finding of tool A, then a Critical finding of
\* tool B with the same file, line, category and title.
C9_Scenario ==
  /\ Len(log) = 2
  /\ SameFourFields(log[1], log[2])
  /\ log[1].tool = <<"A">> /\ log[1].severity = "HI"
  /\ log[2].tool = <<"B">> /\ log[2].severity = "CR"

\* C9: the severity stored for a fingerprint is the most severe (CR > HI > ME >
\* LO) of the severities of all Findings added with that fingerprint; the
\* scenario leaves exactly one Finding, with severity CR and tool "A, B".
C9_MostSevereStored ==
  /\ \A k \in dict_keys(fingerprint_map) :
       /\ \E i \in Contributors(k) : log[i].severity = dict_get(fingerprint_map, k).severity
       /\ \A i \in Contributors(k) :
            severity_rank(dict_get(fingerprint_map, k).severity) <= severity_rank(log[i].severity)
  /\ C9_Scenario =>
       /\ Len(get_unique_findings(fingerprint_map)) = 1
       /\ get_unique_findings(fingerprint_map)[1].severity = "CR"
       /\ get_unique_findings(fingerprint_map)[1].tool = <<"A", ",", " ", "B">>

\* C9 witness: the scenario has been played and the two Findings were merged.
C9_Witness ==
  /\ C9_Scenario
  /\ op = "add_finding"
  /\ ret = FALSE

\* C10: the stored Finding's tool field is the set of distinct original tool
\* names of all contributing Findings, each once, sorted and joined by ", ".
C10_ToolIsSortedUnion ==
  \A k \in dict_keys(fingerprint_map) :
    dict_get(fingerprint_map, k).tool =
      join(<<",", " ">>, sorted({log[i].tool : i \in Contributors(k)}))

\* C11: metadata['tools'] of a merged Finding holds exactly the original tool
\* names of all contributing Findings, each once, and no joined name.
C11_ToolsListIsUnionOfNames ==
  \A k \in dict_keys(fingerprint_map) :
    Cardinality(Contributors(k)) >= 2 =>
      dict_get(fingerprint_map, k).metadata["tools"]
        = SetToBag({log[i].tool : i \in Contributors(k)})

\* C12: metadata accumulates rather than overwrites: every key/value pair of
\* the stored Finding other than 'tools' is still there with the same value
\* after a merge, and every key of the incoming Finding is present afterwards.
C12_MetadataAccumulates ==
  Merged =>
    /\ \A k \in (DOMAIN StoredBefore.metadata) \ {"tools"} :
         /\ k \in DOMAIN StoredAfter.metadata
         /\ StoredAfter.metadata[k] = StoredBefore.metadata[k]
    /\ \A k \in DOMAIN Added.metadata : k \in DOMAIN StoredAfter.metadata

\* Equal up to the case of the letters.
SameIgnoringCase(a, b) == lower(a) = lower(b)

\* C14: normalize_severity(tool, s) fails with an error when no registered
\* table has the tool's name up to case, fails with an error when no key of the
\* tool's table equals s up to case, and otherwise returns the ordinal mapped
\* to the key that equals s up to case.
C14_NormalizeSeverityContract ==
  call.fn = "normalize_severity" =>
    LET names == {n \in DOMAIN SEVERITY_MAPPINGS : SameIgnoringCase(n, call.tool)}
    IN  IF names = {} THEN call.result.raised # ""
        ELSE LET mapping == SEVERITY_MAPPINGS[CHOOSE n \in names : TRUE]
                 keys == IF call.severity.type = "str"
                           THEN {k \in DOMAIN mapping : SameIgnoringCase(k, call.severity.str)}
                           ELSE {}
             IN  IF keys = {} THEN call.result.raised # ""
                 ELSE /\ Cardinality(keys) = 1
                      /\ call.result = Return(mapping[CHOOSE k \in keys : TRUE])

\* C14 witness: a severity written in another case than the table's key was
\* mapped, for a tool named in another case than the table's name.
C14_Witness ==
  /\ call.fn = "normalize_severity"
  /\ call.tool = <<"N", "p", "m", "_", "A", "u", "d", "i", "t">>
  /\ call.severity = JStr(<<"M", "o", "d", "e", "r", "a", "t", "e">>)
  /\ call.result = Return("ME")


\* ---------------------------------------------------- claims on the parsers
\* A parser's parse was the last call, and it returned.
ParseReturned == call.fn \in ParseFunctions /\ call.result.raised = ""

\* The tool name a parser gives the normalizer.
ToolOf(fn) ==
  CASE fn = "SemgrepParser.parse" -> <<"s", "e", "m", "g", "r", "e", "p">>
    [] fn = "BanditParser.parse" -> <<"b", "a", "n", "d", "i", "t">>
    [] fn = "NpmAuditParser.parse" -> <<"n", "p", "m", "_", "a", "u", "d", "i", "t">>
    [] fn = "TrivyParser.parse" -> <<"t", "r", "i", "v", "y">>

RECURSIVE Flatten(_)
Flatten(seqs) == IF seqs = <<>> THEN <<>> ELSE Head(seqs) \o Flatten(Tail(seqs))

\* The advisory objects among the 'via' entries of an npm vulnerability record.
Advisories(vuln_data) ==
  LET via == get(vuln_data, "via", JList(<<>>))
  IN  IF via.type = "list" THEN SelectSeq(via.items, LAMBDA item : item.type = "dict") ELSE <<>>

\* A report has the shape its tool documents: an object whose list of results
\* (mapping of packages, lists of vulnerabilities) is one.
WellShaped(fn, output_file) ==
  /\ output_file.state = "json"
  /\ output_file.data.type = "dict"
  /\ CASE fn \in {"SemgrepParser.parse", "BanditParser.parse"} ->
            get(output_file.data, "results", JList(<<>>)).type = "list"
       [] fn = "NpmAuditParser.parse" ->
            get(output_file.data, "vulnerabilities", JDict(EmptyDict)).type = "dict"
       [] fn = "TrivyParser.parse" ->
            LET results == get(output_file.data, "Results", JList(<<>>))
            IN  /\ results.type = "list"
                /\ \A i \in 1..Len(results.items) :
                     get(results.items[i], "Vulnerabilities", JList(<<>>)).type = "list"

\* The severity value of every raw result of a well-shaped report, in report
\* order.  A raw result of npm audit is an advisory object of a package, or the
\* package itself when its 'via' lists nothing.
RawSeverities(fn, data) ==
  CASE fn = "SemgrepParser.parse" ->
         LET results == get(data, "results", JList(<<>>)).items
         IN  [i \in 1..Len(results) |->
                get(get(results[i], "extra", JDict(EmptyDict)), "severity", JStr(<<"I", "N", "F", "O">>))]
    [] fn = "BanditParser.parse" ->
         LET results == get(data, "results", JList(<<>>)).items
         IN  [i \in 1..Len(results) |-> get(results[i], "issue_severity", JStr(<<"M", "E", "D", "I", "U", "M">>))]
    [] fn = "NpmAuditParser.parse" ->
         LET vulnerabilities == get(data, "vulnerabilities", JDict(EmptyDict)).items
             names == key_list(DOMAIN vulnerabilities)
         IN  Flatten([i \in 1..Len(names) |->
                        LET vuln_data == vulnerabilities[names[i]]
                            via == get(vuln_data, "via", JList(<<>>))
                            n == IF via.type = "list" /\ via.items # <<>>
                                   THEN Len(Advisories(vuln_data)) ELSE 1
                        IN  [j \in 1..n |-> get(vuln_data, "severity", JStr(<<"m", "o", "d", "e", "r", "a", "t", "e">>))]])
    [] fn = "TrivyParser.parse" ->
         LET results == get(data, "Results", JList(<<>>)).items
         IN  Flatten([i \in 1..Len(results) |->
                        LET vulnerabilities == get(results[i], "Vulnerabilities", JList(<<>>)).items
                        IN  [j \in 1..Len(vulnerabilities) |->
                               get(vulnerabilities[j], "Severity", JStr(<<"M", "E", "D", "I", "U", "M">>))]])

\* The normalizer has no ordinal for this severity string of this tool.
Unmappable(tool, severity) ==
  severity.type = "str" /\ normalize_severity(tool, severity).raised = "ValueError"

\* C13: every Finding a parser's parse returns, and every Finding stored in the
\* deduplicator after such Findings were added, has a severity among CR, HI, ME,
\* LO.
C13_SeverityIsOrdinal ==
  /\ ParseReturned =>
       \A i \in 1..Len(call.result.value) : call.result.value[i].severity \in DOMAIN severity_order
  /\ \A i \in 1..Len(fingerprint_map) : fingerprint_map[i][2].severity \in DOMAIN severity_order

\* Findings of two tools, one of them made of a severity its tool's table does
\* not hold, were parsed, added and merged.
C13_Witness ==
  /\ ParseReturned
  /\ call.added
  /\ \E i, j \in 1..Len(log) :
       /\ log[i].tool # log[j].tool
       /\ get_fingerprint(log[i]) = get_fingerprint(log[j])
       /\ "bandit_severity" \in DOMAIN log[i].metadata
       /\ Unmappable(log[i].tool, log[i].metadata["bandit_severity"])

\* C15: when every raw result of a well-shaped report carries a severity string,
\* parse returns one Finding for each raw result, and the Finding of a raw result
\* whose severity string the normalizer cannot map for the tool has severity ME.
C15_UnmappableSeverityIsMedium ==
  (/\ call.fn \in ParseFunctions
   /\ WellShaped(call.fn, call.file)
   /\ \A i \in 1..Len(RawSeverities(call.fn, call.file.data)) :
        RawSeverities(call.fn, call.file.data)[i].type = "str")
  => /\ call.result.raised = ""
     /\ Len(call.result.value) = Len(RawSeverities(call.fn, call.file.data))
     /\ \A i \in 1..Len(call.result.value) :
          Unmappable(ToolOf(call.fn), RawSeverities(call.fn, call.file.data)[i])
            => call.result.value[i].severity = "ME"

\* A report of two results was parsed, the second with a severity string the
\* normalizer cannot map.
C15_Witness ==
  /\ ParseReturned
  /\ WellShaped(call.fn, call.file)
  /\ Len(call.result.value) = 2
  /\ Unmappable(ToolOf(call.fn), RawSeverities(call.fn, call.file.data)[2])
  /\ call.result.value[2].severity = "ME"

\* The vulnerability records of an npm audit report, by package name.
Packages(output_file) ==
  IF output_file.state = "json" /\ output_file.data.type = "dict"
       /\ get(output_file.data, "vulnerabilities", JDict(EmptyDict)).type = "dict"
    THEN get(output_file.data, "vulnerabilities", JDict(EmptyDict)).items
    ELSE EmptyDict

\* C16: NpmAuditParser.parse, when it returns, has made for every vulnerability
\* record one Finding for each advisory source of its 'via', or one Finding when
\* there is no such source, hence at least one for every vulnerable package; all
\* of them are at package.json, lines 0 to 0.
C16_FindingForEveryPackage ==
  (call.fn = "NpmAuditParser.parse" /\ call.result.raised = "")
  => /\ \A name \in DOMAIN Packages(call.file) :
          Cardinality({i \in 1..Len(call.result.value) :
                         call.result.value[i].metadata["package"] = JStr(key_str(name))})
            = (IF Advisories(Packages(call.file)[name]) # <<>>
                 THEN Len(Advisories(Packages(call.file)[name])) ELSE 1)
     /\ \A i \in 1..Len(call.result.value) :
          /\ call.result.value[i].file_path = <<"p", "a", "c", "k", "a", "g", "e", ".", "j", "s", "o", "n">>
          /\ call.result.value[i].line_start = 0
          /\ call.result.value[i].line_end = 0

\* C17: a parser's parse never raises, whatever the file holds.
C17_ParseNeverRaises == call.fn \in ParseFunctions => call.result.raised = ""


\* ------------------------------------------------------- claims on the scan
\* run_tool has been called for the tool.
Attempted(tool_name) == \E i \in 1..Len(attempts) : attempts[i].tool = tool_name

\* scan is past its step for semgrep, for bandit, for every tool.
AfterSemgrep ==
  pc \in {"bandit", "bandit running", "npm_audit", "npm_audit running", "trivy", "trivy running",
          "get_unique_findings", "returned"}

AfterBandit ==
  pc \in {"npm_audit", "npm_audit running", "trivy", "trivy running", "get_unique_findings",
          "returned"}

AfterTrivy == pc \in {"get_unique_findings", "returned"}

\* The tool was available, its process ended and left no output file.
FailedWithoutOutput(attempt) ==
  /\ attempt.available
  /\ attempt.process.kind = "exits"
  /\ attempt.process.output = MissingFile

\* C18: whatever the output directory held before, a call of run_tool whose
\* tool is available, fails and creates no output file returns no Finding; and
\* when scan returns, run_tool has been called for every selected tool and every
\* Finding a call returned is, by its fingerprint, in the list scan returns.
C18_FailedToolContributesNothing ==
  /\ \A i \in 1..Len(attempts) : FailedWithoutOutput(attempts[i]) => attempts[i].findings = <<>>
  /\ pc = "returned" =>
       /\ Attempted("semgrep")
       /\ bandit_selected(env) => Attempted("bandit")
       /\ npm_audit_selected(host.target) => Attempted("npm_audit")
       /\ Attempted("trivy")
       /\ \A i \in 1..Len(attempts) : \A j \in 1..Len(attempts[i].findings) :
            \E k \in 1..Len(ret) :
              get_fingerprint(ret[k]) = get_fingerprint(attempts[i].findings[j])

\* The manifest files of the ecosystems the detector knows.
Manifests == {<<"p", "a", "c", "k", "a", "g", "e", ".", "j", "s", "o", "n">>, <<"r", "e", "q", "u", "i", "r", "e", "m", "e", "n", "t", "s", ".", "t", "x", "t">>, <<"P", "i", "p", "f", "i", "l", "e">>, <<"G", "e", "m", "f", "i", "l", "e">>, <<"p", "o", "m", ".", "x", "m", "l">>}

\* C19: once scan is past its last tool, run_tool has been called for npm_audit
\* if and only if package.json is at the target root, and for trivy if and only
\* if a manifest file is at the target root.
C19_DependencyAuditorsIffManifest ==
  AfterTrivy =>
    /\ Attempted("npm_audit") <=> exists(host.target, <<"p", "a", "c", "k", "a", "g", "e", ".", "j", "s", "o", "n">>)
    /\ Attempted("trivy") <=> \E name \in Manifests : exists(host.target, name)

\* C20: once scan is past semgrep, run_tool has been called for semgrep; once it
\* is past bandit, run_tool has been called for bandit if and only if 'python' is
\* a key of env['languages'], the languages detected in the target of this scan.
C20_SemgrepAlwaysBanditIffPython ==
  /\ AfterSemgrep => Attempted("semgrep") /\ env.languages = detect_languages(host.target)
  /\ AfterBandit => (Attempted("bandit") <=> "python" \in DOMAIN env.languages)

\* A scan has returned that called run_tool for bandit, on a target whose only
\* Python file is three directories down and has an upper-case extension.
C20_Witness ==
  /\ pc = "returned"
  /\ Attempted("semgrep")
  /\ Attempted("bandit")
  /\ host.target = {File(<<"d", "e", "f">>, <<"x", ".", "P", "Y">>, "text")}

\* ---------------------------------------------------------------- the run
\* run has been entered and the process has exited.
RunExited == pc = "exited" /\ host.target_exists

\* Nothing is left of the temporary directory.
TempDirRemoved == ~host.temp_dir /\ host.temp = EmptyTempDir

\* C21: when run has exited, however it ended (with findings, without, by an
\* exception of the scan or of the report generation, by a keyboard interrupt),
\* the temporary directory is removed and cleanup was the last thing done; once
\* an exception or an interrupt has reached run, the exit status is 1.
C21_CleanupOnEveryExit ==
  /\ RunExited => TempDirRemoved /\ phases[Len(phases)] = "Cleanup" /\ status \in {0, 1}
  /\ raised # "" => status = 1

\* run was interrupted while a tool was running and has exited.
C21_Witness ==
  /\ RunExited
  /\ raised = "KeyboardInterrupt"
  /\ attempts # <<>>
  /\ status = 1
  /\ TempDirRemoved

\* C22: when the target path does not exist, the program does one thing: it
\* exits with status 1.  No tool is probed or started, the environment is not
\* detected, no phase is entered, and nothing on the file system changes: the
\* output directory and the temporary directory are not created.
C22_MissingTargetExitsFirst ==
  /\ [](~host.target_exists /\ pc # "main" =>
          /\ pc = "exited" /\ status = 1
          /\ attempts = <<>> /\ host.processes = {}
          /\ env = NoEnv /\ phases = <<>>)
  /\ [][~host.target_exists => host' = host]_vars

\* The program has exited for a missing target, and no output directory exists.
C22_Witness ==
  /\ ~host.target_exists
  /\ pc = "exited"
  /\ status = 1
  /\ ~host.output_dir
  /\ ~host.temp_dir

\* Every tool scan selects has been passed over or run.
AllSelectedAttempted ==
  /\ Attempted("semgrep")
  /\ bandit_selected(env) => Attempted("bandit")
  /\ npm_audit_selected(host.target) => Attempted("npm_audit")
  /\ Attempted("trivy")

\* C23: whatever happens to the tools (not available, a process that cannot be
\* started or fails, an output file that is missing or is not the expected
\* JSON), a run that got to its first tool and was neither interrupted nor
\* failed by its report generators has attempted every selected tool, has
\* deduplicated, and exits with status 0.
C23_AdapterFailureIsNotTerminal ==
  RunExited /\ attempts # <<>> /\ raised \notin {"KeyboardInterrupt", "Exception"} =>
    /\ AllSelectedAttempted
    /\ \E i \in 1..Len(phases) : phases[i] = "Deduplicate"
    /\ status = 0

\* The phases of a scan, in order.
Phases == <<"Init", "DetectEnvironment", "RunAdapters", "Deduplicate", "Report", "Cleanup">>

\* C24: a run that has exited and met no exception and no interrupt went
\* through Init, DetectEnvironment, RunAdapters, Deduplicate, Report and
\* Cleanup, each once and in this order, whether or not a Finding was
\* collected.
C24_EveryPhaseInOrder == RunExited /\ raised = "" => phases = Phases

\* Every Finding the calls of run_tool returned so far is, by its fingerprint,
\* in the deduplicator.
AllReturnedAreAdded ==
  \A i \in 1..Len(attempts) : \A j \in 1..Len(attempts[i].findings) :
    get_fingerprint(attempts[i].findings[j]) \in dict_keys(fingerprint_map)

\* C25: at every point of the scan where no add_findings has raised, and so
\* whenever the next tool is about to be probed or is running, every Finding of
\* the tools attempted so far has been added to the deduplicator.
C25_AddedBeforeNextAdapter == raised # "AttributeError" => AllReturnedAreAdded

\* Two tools have returned Findings and trivy is about to be probed.
C25_Witness ==
  /\ pc = "trivy"
  /\ Len(attempts) >= 2
  /\ attempts[1].findings # <<>>
  /\ attempts[2].findings # <<>>
  /\ AllReturnedAreAdded

\* The order in which scan takes the tools.
ToolOrder == <<"semgrep", "bandit", "npm_audit", "trivy">>

position(tool_name) == index_of(ToolOrder, tool_name)

\* C26: the tools are taken one after the other in the order semgrep, bandit,
\* npm_audit, trivy; at most one tool process runs at a time, and it is the
\* process of a tool that comes after every tool attempted so far; the tools
\* that ran were given pairwise distinct output files; and the deduplicator is
\* read (get_unique_findings, get_statistics) only when every selected tool has
\* been attempted, no process runs and every Finding returned has been added.
C26_OneToolAtATimeInOrder ==
  /\ \A i, j \in 1..Len(attempts) :
       i < j => position(attempts[i].tool) < position(attempts[j].tool)
  /\ Cardinality(host.processes) <= 1
  /\ \A t \in host.processes : \A i \in 1..Len(attempts) : position(attempts[i].tool) < position(t)
  /\ \A i, j \in 1..Len(attempts) :
       i # j /\ attempts[i].available /\ attempts[j].available =>
         attempts[i].output_file # attempts[j].output_file
  /\ op \in {"get_unique_findings", "get_statistics"} =>
       AllSelectedAttempted /\ host.processes = {} /\ AllReturnedAreAdded

\* trivy runs after semgrep, bandit and npm_audit have run.
C26_Witness ==
  /\ host.processes = {"trivy"}
  /\ Len(attempts) = 3
  /\ \A i \in 1..3 : attempts[i].available /\ attempts[i].tool = ToolOrder[i]

\* ------------------------------------------------------- the deduplicator
\* C27: no call of add_finding, add_findings, get_unique_findings or
\* get_statistics removes a fingerprint from the mapping, and the two reads
\* leave the mapping as it was.
C27_FingerprintsOnlyGrow ==
  [][/\ dict_keys(fingerprint_map) \subseteq dict_keys(fingerprint_map')
     /\ op' \in {"get_unique_findings", "get_statistics"} => fingerprint_map' = fingerprint_map]_vars

\* add_findings was called on a mapping with entries and added one.
C27_Witness ==
  /\ op = "add_findings"
  /\ prev_map # <<>>
  /\ Len(fingerprint_map) > Len(prev_map)
  /\ dict_keys(prev_map) \subseteq dict_keys(fingerprint_map)

\* The Finding is of no line of a file, or its first line is not after its last.
LinesInOrder(finding) == finding.line_start > 0 => finding.line_start <= finding.line_end

\* C28: every Finding a parser returns, and every Finding stored in the
\* deduplicator after the parsed Findings were added and merged, has
\* line_start <= line_end when line_start > 0.
C28_LineStartNotAfterLineEnd ==
  /\ ParseReturned => \A i \in 1..Len(call.result.value) : LinesInOrder(call.result.value[i])
  /\ \A i \in 1..Len(fingerprint_map) : LinesInOrder(fingerprint_map[i][2])

\* ------------------------------------------------------------ the objects
\* The addresses the object at an address holds, directly or through its dict.
Reachable(objects, address) ==
  LET metadata == objects[address].value.metadata
  IN  {address, metadata}
        \cup (IF "tools" \in DOMAIN objects[metadata].value
                THEN {objects[metadata].value["tools"]} ELSE {})

\* C29: a merge, called directly or by add_finding, leaves every object that
\* existed before the call as it was: the two Findings merged, their metadata
\* dicts, their 'tools' lists.  Its result is a Finding that did not exist
\* before, with a dict and a 'tools' list that did not exist before; add_finding
\* binds the fingerprint to this new Finding.  The mapping read through its
\* addresses is the mapping of the Findings as values.
C29_MergeLeavesInputsAlone ==
  /\ \A a \in 1..Len(heap.before) : heap.objects[a] = heap.before[a]
  /\ heap.op \in {"merge_with", "add_finding"} /\ heap.result # 0 =>
       /\ Reachable(heap.objects, heap.result) \cap (1..Len(heap.before)) = {}
       /\ Cardinality(Reachable(heap.objects, heap.result)) = 3
       /\ finding_at(heap.objects, heap.result)
            = merge_with(finding_at(heap.before, heap.self), finding_at(heap.before, heap.other))
  /\ heap.op = "add_finding" /\ heap.result # 0 =>
       \E i \in 1..Len(heap.fingerprint_map) : heap.fingerprint_map[i][2] = heap.result
  /\ fingerprint_map
       = [i \in 1..Len(heap.fingerprint_map) |->
            <<heap.fingerprint_map[i][1], finding_at(heap.objects, heap.fingerprint_map[i][2])>>]

\* add_finding merged a stored Finding that has a 'tools' list, itself the
\* result of a merge, with a Finding that has metadata of its own.
C29_Witness ==
  /\ heap.op = "add_finding"
  /\ heap.result # 0
  /\ "tools" \in DOMAIN metadata_at(heap.before, heap.before[heap.self].value.metadata)
  /\ DOMAIN metadata_at(heap.before, heap.before[heap.other].value.metadata) # {}
  /\ heap.objects[heap.self] = heap.before[heap.self]

\* ------------------------------------------------------- keys and values
\* C30: every Finding stored in the mapping, as it was added or as merges
\* left it, has the fingerprint it is stored under.
C30_StoredUnderOwnFingerprint ==
  \A i \in 1..Len(fingerprint_map) :
    get_fingerprint(fingerprint_map[i][2]) = fingerprint_map[i][1]

\* add_finding has replaced a stored Finding by the result of a merge with a
\* Finding of another spelling of the path.
C30_Witness ==
  /\ op = "add_finding"
  /\ ret = FALSE
  /\ \E i \in 1..Len(fingerprint_map) :
       /\ fingerprint_map[i][2] # prev_map[i][2]
       /\ fingerprint_map[i][2].file_path # log[Len(log)].file_path
       /\ get_fingerprint(fingerprint_map[i][2]) = get_fingerprint(log[Len(log)])
====
